---------------------------- MODULE Spec2Model ----------------------------
(***************************************************************************)
(* A model of the projection engine of game-kpi-projection                 *)
(* (src/backend/main.py).                                                  *)
(*                                                                         *)
(* Numbers.  A Python int is a TLA+ integer.  A Python float is modelled   *)
(* in one of two ways:                                                     *)
(*   - a scalar that the code holds in a local variable (a weight, a scale *)
(*     factor, a ratio) is an exact rational <<n, d>>, d > 0, in lowest    *)
(*     terms; <<n, 0>> stands for the non-finite floats (nan for n = 0,    *)
(*     +inf for n > 0, -inf for n < 0);                                    *)
(*   - a fraction that the code stores in a list (a retention curve, a     *)
(*     payment-rate series, a seasonality factor) is a fixed-point number  *)
(*     with three decimals: the integer 1000 * value, truncated.           *)
(* Money stored in a list (ARPPU, revenue) is kept in whole currency units.*)
(* Python sequences are indexed from 0; At(s, i) reads s[i].               *)
(***************************************************************************)
EXTENDS Integers, Sequences, FiniteSets, TLC

VARIABLES
    fn,          \* the operation this behaviour exercises, "idle" before the call
    args,        \* the arguments of the call (a record)
    ret,         \* the value returned by the call, NoValue before it
    generator,   \* the state of the generator of the random module
    tables,      \* the module-level tables of main.py
    store        \* the contents of raw_game_data.json

vars == <<fn, args, ret, generator, tables, store>>

\* What a process keeps between two calls.
process == <<generator, tables, store>>

NoValue == [none |-> TRUE]

(***************************************************************************)
(* Bounds of the model.                                                    *)
(***************************************************************************)
MaxDays == 3          \* horizon of the pure-function inputs
MaxLen == 2           \* length of the input series of the pure functions

----------------------------------------------------------------------------
(***************************************************************************)
(* Arithmetic helpers.                                                     *)
(***************************************************************************)
Abs(x) == IF x < 0 THEN -x ELSE x

Max(x, y) == IF x >= y THEN x ELSE y

Min(x, y) == IF x <= y THEN x ELSE y

\* Python's int(n / d) for d > 0: truncation toward zero.
Trunc(n, d) == IF n >= 0 THEN n \div d ELSE -((-n) \div d)

RECURSIVE GCD(_, _)
GCD(x, y) == IF y = 0 THEN x ELSE GCD(y, x % y)

\* The rational n / d (d # 0) in lowest terms with a positive denominator.
R(n, d) ==
    LET s == IF d < 0 THEN -1 ELSE 1
        g == GCD(Abs(n), Abs(d))
    IN  <<(s * n) \div g, (s * d) \div g>>

I(n) == <<n, 1>>

\* A three-decimal fixed-point value as a rational.
FromMilli(m) == R(m, 1000)

RMul(x, y) ==
    LET g1 == GCD(Abs(x[1]), y[2])
        g2 == GCD(Abs(y[1]), x[2])
    IN  R((x[1] \div g1) * (y[1] \div g2), (x[2] \div g2) * (y[2] \div g1))

RDiv(x, y) == RMul(x, R(y[2], y[1]))

RAdd(x, y) ==
    LET g == GCD(x[2], y[2])
    IN  R(x[1] * (y[2] \div g) + y[1] * (x[2] \div g), (x[2] \div g) * y[2])

RNeg(x) == <<-x[1], x[2]>>

RSub(x, y) == RAdd(x, RNeg(y))

RLt(x, y) ==
    LET g == GCD(x[2], y[2])
    IN  x[1] * (y[2] \div g) < y[1] * (x[2] \div g)

RLe(x, y) == ~RLt(y, x)

RMin(x, y) == IF RLt(y, x) THEN y ELSE x

RMax(x, y) == IF RLt(x, y) THEN y ELSE x

\* int(x) of a finite float.
RInt(x) == Trunc(x[1], x[2])

\* A float, when stored in a list of fractions: three decimals, truncated.
ToMilli(x) ==
    LET g == GCD(1000, x[2])
    IN  Trunc(x[1] * (1000 \div g), x[2] \div g)

IsFinite(x) == x[2] # 0

At(s, i) == s[i + 1]

Last(s) == s[Len(s)]

\* range(n) as a set.
Range(n) == 0 .. (n - 1)

\* s[first] + ... + s[last], added by halves.
RECURSIVE SumRange(_, _, _)
SumRange(s, first, last) ==
    IF first > last THEN 0
    ELSE IF first = last THEN s[first]
    ELSE LET mid == (first + last) \div 2
         IN  SumRange(s, first, mid) + SumRange(s, mid + 1, last)

\* sum(s)
SumSeq(s) == SumRange(s, 1, Len(s))

\* A Python list: its elements are computed once, when the list is built.
List(s) == s \o <<>>

\* All sequences over S of length 0 .. n.
SeqsUpTo(S, n) == UNION {[1 .. k -> S] : k \in 0 .. n}

----------------------------------------------------------------------------
(***************************************************************************)
(* The state of the process: the module-level tables (main.py 84-93,       *)
(* 224-273), the historical data that load_raw_data reads from             *)
(* raw_game_data.json on every call (main.py 31-33), and the generator of  *)
(* the random module (main.py 103).  The generator is the seed it was last *)
(* seeded with and the number of draws taken since.                        *)
(***************************************************************************)
QUALITY_SCORES ==
    "S" :> R(12, 10) @@ "A" :> R(11, 10) @@ "B" :> I(1) @@ "C" :> R(9, 10) @@
    "D" :> R(8, 10)

BM_TYPE_MODIFIERS ==
    "Hardcore" :> [pr_mod |-> R(1, 2), arppu_mod |-> I(2)] @@
    "Midcore" :> [pr_mod |-> I(1), arppu_mod |-> I(1)] @@
    "Casual" :> [pr_mod |-> I(2), arppu_mod |-> R(4, 10)] @@
    "F2P_Cosmetic" :> [pr_mod |-> R(8, 10), arppu_mod |-> R(6, 10)] @@
    "Gacha" :> [pr_mod |-> R(15, 10), arppu_mod |-> R(18, 10)]

\* One row of BENCHMARK_DATA: the retention anchors and the payment rate are
\* given in hundredths, the ARPPU in currency units.
Bm(d1, d7, d30, d90, pr, arppu) ==
    [d1 |-> R(d1, 100), d7 |-> R(d7, 100), d30 |-> R(d30, 100), d90 |-> R(d90, 100),
     pr |-> R(pr, 100), arppu |-> I(arppu)]

BENCHMARK_DATA ==
    "PC" :> (
        "MMORPG" :> Bm(32, 20, 11, 6, 6, 78000) @@
        "Action RPG" :> Bm(30, 18, 9, 4, 5, 65000) @@
        "Battle Royale" :> Bm(35, 22, 12, 7, 3, 45000) @@
        "Extraction Shooter" :> Bm(28, 16, 8, 4, 4, 55000) @@
        "FPS/TPS" :> Bm(33, 20, 10, 5, 4, 50000) @@
        "Strategy" :> Bm(25, 15, 8, 4, 7, 85000) @@
        "Casual" :> Bm(40, 20, 8, 3, 2, 25000) @@
        "Sports" :> Bm(30, 18, 9, 4, 5, 60000)) @@
    "Mobile" :> (
        "MMORPG" :> Bm(42, 18, 7, 3, 5, 52000) @@
        "Action RPG" :> Bm(38, 15, 6, 2, 4, 45000) @@
        "Battle Royale" :> Bm(45, 20, 8, 4, 2, 35000) @@
        "Extraction Shooter" :> Bm(35, 14, 5, 2, 3, 40000) @@
        "FPS/TPS" :> Bm(40, 17, 7, 3, 3, 38000) @@
        "Strategy" :> Bm(35, 16, 7, 3, 6, 68000) @@
        "Casual" :> Bm(50, 22, 9, 4, 2, 18000) @@
        "Sports" :> Bm(38, 16, 6, 2, 4, 42000)) @@
    "Console" :> (
        "MMORPG" :> Bm(35, 22, 12, 6, 5, 70000) @@
        "Action RPG" :> Bm(33, 20, 10, 5, 4, 60000) @@
        "Battle Royale" :> Bm(38, 24, 13, 7, 2, 40000) @@
        "Extraction Shooter" :> Bm(30, 18, 9, 4, 3, 50000) @@
        "FPS/TPS" :> Bm(36, 22, 11, 6, 3, 48000) @@
        "Strategy" :> Bm(28, 17, 9, 4, 6, 75000) @@
        "Casual" :> Bm(42, 20, 8, 3, 2, 22000) @@
        "Sports" :> Bm(35, 20, 10, 5, 5, 55000))

\* The monthly weights, in hundredths, January first.
SEASONALITY_BY_REGION ==
    "korea" :> <<115, 120, 100, 95, 100, 95, 105, 110, 100, 105, 110, 115>> @@
    "japan" :> <<110, 105, 105, 110, 115, 95, 100, 105, 100, 100, 105, 120>> @@
    "china" :> <<110, 125, 100, 95, 105, 110, 105, 100, 100, 120, 115, 105>> @@
    "global" :> <<95, 90, 95, 100, 100, 100, 105, 100, 100, 105, 115, 125>> @@
    "sea" :> <<105, 110, 100, 100, 100, 105, 105, 100, 100, 100, 105, 115>> @@
    "na" :> <<90, 90, 95, 100, 100, 105, 105, 100, 95, 105, 120, 125>> @@
    "sa" :> <<110, 105, 100, 95, 95, 100, 105, 100, 100, 105, 110, 115>> @@
    "eu" :> <<90, 90, 95, 105, 100, 100, 100, 95, 100, 105, 115, 125>>

\* The tables as the module defines them.
Tables ==
    [QUALITY_SCORES |-> QUALITY_SCORES, BM_TYPE_MODIFIERS |-> BM_TYPE_MODIFIERS,
     BENCHMARK_DATA |-> BENCHMARK_DATA, SEASONALITY_BY_REGION |-> SEASONALITY_BY_REGION]

\* Two contents of the data file: retention and payment rate in thousandths.
RawData ==
    [games |->
        [retention |-> ("GameA" :> <<400, 280, 230, 200, 180>> @@ "GameB" :> <<500, 300>>),
         payment_rate |-> ("GameA" :> <<30, 25, 0>> @@ "GameB" :> <<40, 45>>),
         arppu |-> ("GameA" :> <<40000, 42000>>)]]

AltRawData ==
    [games |->
        [retention |-> ("GameA" :> <<900, 100>> @@ "GameB" :> <<1000, 990, 980, 970>>),
         payment_rate |-> ("GameA" :> <<80>> @@ "GameB" :> <<1, 2, 3>>),
         arppu |-> ("GameA" :> <<1000>> @@ "GameB" :> <<90000, 5>>)]]

\* A process that has loaded the module and not yet used the generator.
ProcessInit ==
    /\ generator = [seed |-> 0, drawn |-> 0]
    /\ tables = Tables
    /\ store = RawData

----------------------------------------------------------------------------
(***************************************************************************)
(* calculate_dau_matrix (main.py 745-770).                                 *)
(***************************************************************************)

\* The retention looked up for a cohort days_since_install days after its
\* install: 1.0 on the install day, else retention_curve[days_since_install - 1],
\* 0 beyond the end of the curve (fixed point, three decimals).
Retention_CurveOnInstallDay(retention_curve, days_since_install) ==
    IF days_since_install < Len(retention_curve)
    THEN At(retention_curve, days_since_install)
    ELSE 0

Retention_NoShift(retention_curve, days_since_install) ==
    IF days_since_install = 0
    THEN 1000
    ELSE IF days_since_install < Len(retention_curve)
         THEN At(retention_curve, days_since_install)
         ELSE 0

CohortRetention(retention_curve, days_since_install) ==
    IF days_since_install = 0
    THEN 1000
    ELSE LET idx == days_since_install - 1
         IN  IF idx < Len(retention_curve) THEN At(retention_curve, idx) ELSE 0

\* A cohort counted with its installs on every later day and its retained
\* users on top of them.
CohortContribution_OnTopOfInstalls(nru_series, retention_curve, active_day, cohort_day) ==
    IF cohort_day < Len(nru_series)
    THEN At(nru_series, cohort_day)
           * (1000 + (IF active_day = cohort_day
                      THEN 0
                      ELSE CohortRetention(retention_curve, active_day - cohort_day)))
    ELSE 0

\* nru * retention of one (active_day, cohort_day) pair, in thousandths;
\* nothing for a cohort day beyond the NRU series.
CohortContribution(nru_series, retention_curve, active_day, cohort_day) ==
    IF cohort_day < Len(nru_series)
    THEN At(nru_series, cohort_day)
           * CohortRetention(retention_curve, active_day - cohort_day)
    ELSE 0

\* The inner loop: total_dau after cohort days 0 .. cohort_day.
\* total_dau after the turns first .. last of the inner loop, added by halves.
RECURSIVE TotalDau(_, _, _, _, _)
TotalDau(nru_series, retention_curve, active_day, first, last) ==
    IF first > last THEN 0
    ELSE IF first = last
    THEN CohortContribution(nru_series, retention_curve, active_day, first)
    ELSE LET mid == (first + last) \div 2
         IN  TotalDau(nru_series, retention_curve, active_day, first, mid)
               + TotalDau(nru_series, retention_curve, active_day, mid + 1, last)

calculate_dau_matrix(nru_series, retention_curve, days) ==
    List([i \in 1 .. Max(days, 0) |->
        Trunc(TotalDau(nru_series, retention_curve, i - 1, 0, i - 1), 1000)])

\* Inputs of the check of calculate_dau_matrix.
DauNruValues == {-3, 0, 4, 10}

DauRetentionValues == {0, 250, 1000, 1500}

DauArgs ==
    [nru_series : SeqsUpTo(DauNruValues, MaxLen + 1),
     retention_curve : SeqsUpTo(DauRetentionValues, MaxLen),
     days : 0 .. MaxDays]

InitDau ==
    /\ ProcessInit
    /\ fn = "idle"
    /\ args \in DauArgs
    /\ ret = NoValue

CallDau ==
    /\ fn = "idle"
    /\ fn' = "calculate_dau_matrix"
    /\ ret' = calculate_dau_matrix(args.nru_series, args.retention_curve, args.days)
    /\ UNCHANGED <<args, process>>

NextDau == CallDau

SpecDau == InitDau /\ [][NextDau]_vars

DauDone == fn = "calculate_dau_matrix"

NonNegative(s) == \A i \in 1 .. Len(s) : s[i] >= 0

(***************************************************************************)
(* C1: in calculate_dau_matrix the cohort acquired on day t < min(days,    *)
(* len(nru_series)) contributes exactly nru_series[t] to dau[t], whatever  *)
(* the retention curve; so dau[0] = nru_series[0] and, for non-negative    *)
(* NRU and retention values, dau[t] >= nru_series[t].                      *)
(***************************************************************************)
C1_InstallDayContribution ==
    DauDone =>
        /\ \A t \in Range(Min(args.days, Len(args.nru_series))) :
              /\ CohortContribution(args.nru_series, args.retention_curve, t, t)
                    = 1000 * At(args.nru_series, t)
              /\ (NonNegative(args.nru_series) /\ NonNegative(args.retention_curve))
                    => At(ret, t) >= At(args.nru_series, t)
        /\ (args.days >= 1 /\ Len(args.nru_series) >= 1)
              => At(ret, 0) = At(args.nru_series, 0)

\* A call whose curve does not start at 1.0 and whose first cohort is not empty.
C1_Witness ==
    /\ DauDone
    /\ args.days >= 2
    /\ Len(args.nru_series) >= 2
    /\ Len(args.retention_curve) >= 1
    /\ At(args.retention_curve, 0) = 250
    /\ At(args.nru_series, 0) = 10
    /\ At(args.nru_series, 1) = 4

\* The specification's retention: r(0) = 1, r(d) = curve[d-1], 0 past the end.
C2_r(curve, d) ==
    IF d = 0 THEN 1000
    ELSE IF d <= Len(curve) THEN curve[d] ELSE 0

RECURSIVE C2_Sum(_, _, _, _)
C2_Sum(nru, curve, t, cs) ==
    IF cs = {} THEN 0
    ELSE LET c == CHOOSE x \in cs : TRUE
         IN  At(nru, c) * C2_r(curve, t - c) + C2_Sum(nru, curve, t, cs \ {c})

(***************************************************************************)
(* C2: calculate_dau_matrix returns a series of length days in which       *)
(* dau[t] is the truncation of the sum over the cohort days c <= t of      *)
(* nru[c] * r(t - c), r(0) = 1.0, r(d) = retention_curve[d-1] for          *)
(* 1 <= d <= len(retention_curve), r(d) = 0 beyond the end of the curve.   *)
(***************************************************************************)
C2_CohortSum ==
    DauDone =>
        /\ Len(ret) = args.days
        /\ \A t \in Range(args.days) :
              At(ret, t) =
                 Trunc(C2_Sum(args.nru_series, args.retention_curve, t,
                              {c \in 0 .. t : c < Len(args.nru_series)}), 1000)

\* A call in which a day-1 and a day-2 retention are both looked up.
C2_Witness ==
    /\ DauDone
    /\ args.days = 3
    /\ Len(args.nru_series) = 3
    /\ Len(args.retention_curve) = 2
    /\ At(args.retention_curve, 0) = 1000
    /\ At(args.retention_curve, 1) = 250
    /\ At(args.nru_series, 0) = 10
    /\ At(ret, 2) > At(args.nru_series, 2)

\* The users acquired on the days 0 .. t of an NRU series.
RECURSIVE C29_Acquired(_, _)
C29_Acquired(nru_series, t) ==
    IF t < 0 THEN 0
    ELSE (IF t < Len(nru_series) THEN At(nru_series, t) ELSE 0)
           + C29_Acquired(nru_series, t - 1)

C29_InUnitInterval(curve) == \A i \in 1 .. Len(curve) : curve[i] >= 0 /\ curve[i] <= 1000

(***************************************************************************)
(* C29: for every non-negative NRU series and every retention curve with   *)
(* values in [0, 1], calculate_dau_matrix never reports more active users  *)
(* than were ever acquired: dau[t] <= nru[0] + ... + nru[t] on every day t.*)
(***************************************************************************)
C29_DauWithinAcquired ==
    (DauDone /\ NonNegative(args.nru_series) /\ C29_InUnitInterval(args.retention_curve))
        => \A t \in Range(args.days) :
              At(ret, t) <= C29_Acquired(args.nru_series, t)

\* Three cohorts of 10, 4 and 10 users kept in full on the day after the
\* install and to a quarter on the next: 14 of 14 are active on the second
\* day, 16 of 24 on the third.
C29_Witness ==
    /\ DauDone
    /\ args.nru_series = <<10, 4, 10>>
    /\ args.retention_curve = <<1000, 250>>
    /\ args.days = 3
    /\ ret = <<10, 14, 16>>
    /\ C29_Acquired(args.nru_series, 2) = 24

----------------------------------------------------------------------------
(***************************************************************************)
(* Transcendental functions.  np.log, np.exp and np.power return floats    *)
(* that are irrational in general; they are computed here to three         *)
(* decimals (argument reduction by powers of two and a short series), and  *)
(* are exact at the points the code relies on: ln 1 = 0, exp 0 = 1,        *)
(* x ** 0 = 1, 1 ** b = 1.                                                 *)
(***************************************************************************)

\* ln of a rational m in [1, 2), in thousandths: 2 (y + y^3/3 + y^5/5) with
\* y = (m - 1) / (m + 1).
LnMantissa(m) ==
    LET y == ToMilli(RDiv(RSub(m, I(1)), RAdd(m, I(1))))
        y3 == (y * y * y) \div 1000000
        y5 == (y3 * y * y) \div 1000000
    IN  2 * (y + (y3 \div 3) + (y5 \div 5))

\* ln 2 in millionths.
RECURSIVE LnReduce(_, _)
LnReduce(x, k) ==
    IF RLe(I(2), x) THEN LnReduce(RMul(x, R(1, 2)), k + 1)
    ELSE IF RLt(x, I(1)) THEN LnReduce(RMul(x, I(2)), k - 1)
    ELSE Trunc(k * 693147, 1000) + LnMantissa(x)

\* np.log(x) for a rational x > 0, in thousandths.
LnMilli(x) == LnReduce(x, 0)

\* The series of exp(-t / 1000) for 0 <= t < 1000 ln 2: term n is
\* t^n / n! in thousandths.
RECURSIVE ExpSeries(_, _, _)
ExpSeries(t, term, n) ==
    IF term = 0 \/ n > 8 THEN 0
    ELSE (IF n % 2 = 0 THEN term ELSE -term)
           + ExpSeries(t, (term * t) \div (1000 * (n + 1)), n + 1)

RECURSIVE ExpReduce(_, _)
ExpReduce(t, half) ==
    IF t >= 693 /\ half > 0
    THEN ExpReduce(t - 693, half \div 2)
    ELSE (half * ExpSeries(t, 1000, 0)) \div 1000

\* np.exp(x) for x <= 0 given in thousandths, in thousandths.
ExpNegMilli(x) == IF x >= 0 THEN 1000 ELSE ExpReduce(-x, 1000)

\* np.power(x, b) for an integer x >= 1 and a rational b <= 0, in thousandths.
PowMilli(x, b) ==
    IF x = 1 \/ b[1] = 0 THEN 1000
    ELSE ExpNegMilli(Trunc(b[1] * LnMilli(I(x)), b[2]))

----------------------------------------------------------------------------
(***************************************************************************)
(* retention_curve and generate_retention_curve (main.py 374-376, 417-429).*)
(***************************************************************************)

\* a * x ** b
retention_curve(x, a, b) == RMul(a, FromMilli(PowMilli(x, b)))

generate_retention_curve_NoRescale(a, b, target_d1, days) ==
    List([day \in 1 .. Max(days, 0) |->
        ToMilli(RMin(RMax(retention_curve(day, a, b), R(1, 1000)), I(1)))])

generate_retention_curve(a, b, target_d1, days) ==
    LET base_d1 == retention_curve(1, a, b)
        scale_factor == IF RLt(I(0), base_d1) THEN RDiv(target_d1, base_d1) ELSE I(1)
    IN  List([day \in 1 .. Max(days, 0) |->
            ToMilli(RMin(RMax(RMul(retention_curve(day, a, b), scale_factor),
                              R(1, 1000)), I(1)))])

\* Inputs of the check of generate_retention_curve: curve parameters inside
\* and on the bounds of the fit, targets inside and outside [0.001, 1].
CurveAValues == {I(0), R(1, 4), R(2, 5), I(1), I(2)}

CurveBValues == {I(0), R(-1, 2), I(-1), I(-2)}

CurveTargets ==
    {R(-1, 10), I(0), R(1, 1000), R(7, 20), R(2, 5), R(9, 20), I(1), R(3, 2)}

CurveArgs ==
    [a : CurveAValues, b : CurveBValues, target_d1 : CurveTargets, days : 0 .. MaxDays]

InitCurve ==
    /\ ProcessInit
    /\ fn = "idle"
    /\ args \in CurveArgs
    /\ ret = NoValue

CallCurve ==
    /\ fn = "idle"
    /\ fn' = "generate_retention_curve"
    /\ ret' = generate_retention_curve(args.a, args.b, args.target_d1, args.days)
    /\ UNCHANGED <<args, process>>

NextCurve == CallCurve

SpecCurve == InitCurve /\ [][NextCurve]_vars

CurveDone == fn = "generate_retention_curve"

(***************************************************************************)
(* C3 as claimed: for every (a, b) with a * 1^b > 0, every target day-1    *)
(* retention and every days >= 1, generate_retention_curve(a, b,           *)
(* target_d1, days)[0] equals target_d1.                                   *)
(***************************************************************************)
C3_Original ==
    (CurveDone /\ RLt(I(0), retention_curve(1, args.a, args.b)) /\ args.days >= 1)
        => FromMilli(At(ret, 0)) = args.target_d1

(***************************************************************************)
(* C3 as amended: the same for a target day-1 retention in [0.001, 1]; a   *)
(* target below 0.001 gives 0.001 and a target above 1 gives 1.            *)
(***************************************************************************)
C3_RescaleWithinClamp ==
    (CurveDone /\ RLt(I(0), retention_curve(1, args.a, args.b)) /\ args.days >= 1)
        => /\ (RLe(R(1, 1000), args.target_d1) /\ RLe(args.target_d1, I(1)))
                => FromMilli(At(ret, 0)) = args.target_d1
           /\ RLt(args.target_d1, R(1, 1000)) => At(ret, 0) = 1
           /\ RLt(I(1), args.target_d1) => At(ret, 0) = 1000

\* A fitted curve whose own day-1 value differs from the target it is scaled to.
C3_Witness ==
    /\ CurveDone
    /\ args.a = R(2, 5)
    /\ args.b = R(-1, 2)
    /\ args.target_d1 = R(9, 20)
    /\ args.days = 3
    /\ At(ret, 0) = 450
    /\ At(ret, 2) < 450

----------------------------------------------------------------------------
(***************************************************************************)
(* calculate_time_decay_weight (main.py 176-188).                          *)
(***************************************************************************)
calculate_time_decay_weight_OverDays(day, days) ==
    LET weight_internal ==
            IF days > 1
            THEN RSub(R(9, 10), RDiv(RMul(R(8, 10), I(day - 1)), I(days)))
            ELSE R(9, 10)
    IN  RMax(RMin(weight_internal, R(9, 10)), R(1, 10))

calculate_time_decay_weight(day, days) ==
    LET weight_internal ==
            IF days > 1
            THEN RSub(R(9, 10), RDiv(RMul(R(8, 10), I(day - 1)), I(days - 1)))
            ELSE R(9, 10)
    IN  RMax(RMin(weight_internal, R(9, 10)), R(1, 10))

MaxHorizon == 12      \* horizons of the check of calculate_time_decay_weight

\* The horizons checked: the short ones and the default of a year.
WeightHorizons == (0 .. MaxHorizon) \cup {365}

WeightArgs ==
    {a \in [day : (0 .. MaxHorizon + 1) \cup {365, 366}, days : WeightHorizons] :
        a.day <= a.days + 1}

InitWeight ==
    /\ ProcessInit
    /\ fn = "idle"
    /\ args \in WeightArgs
    /\ ret = NoValue

CallWeight ==
    /\ fn = "idle"
    /\ fn' = "calculate_time_decay_weight"
    /\ ret' = calculate_time_decay_weight(args.day, args.days)
    /\ UNCHANGED <<args, process>>

NextWeight == CallWeight

SpecWeight == InitWeight /\ [][NextWeight]_vars

WeightDone == fn = "calculate_time_decay_weight"

(***************************************************************************)
(* C5: calculate_time_decay_weight(1, days) = 0.9 and                      *)
(* calculate_time_decay_weight(days, days) = 0.1 for every horizon         *)
(* days > 1, and calculate_time_decay_weight(day, 1) = 0.9 for horizon 1.  *)
(***************************************************************************)
C5_BlendBoundary ==
    WeightDone =>
        /\ (args.days > 1 /\ args.day = 1) => ret = R(9, 10)
        /\ (args.days > 1 /\ args.day = args.days) => ret = R(1, 10)
        /\ args.days = 1 => ret = R(9, 10)

\* The final day of a horizon longer than two days.
C5_Witness ==
    /\ WeightDone
    /\ args.days = 7
    /\ args.day = 7
    /\ ret = R(1, 10)

----------------------------------------------------------------------------
(***************************************************************************)
(* calculate_organic_boost (main.py 520-539).                              *)
(***************************************************************************)
NaN == <<0, 0>>

NegInf == <<-1, 0>>

\* np.log of a float: -inf at 0 and nan below 0 (numpy warns, it does not raise).
NpLog(x) ==
    IF x[1] = 0 THEN NegInf
    ELSE IF x[1] < 0 THEN NaN
    ELSE FromMilli(LnMilli(x))

\* calculate_organic_boost without the cap of line 539.
calculate_organic_boost_NoCap(brand_budget, ua_budget) ==
    IF ua_budget <= 0
    THEN I(1)
    ELSE LET ratio == R(brand_budget, ua_budget)
             log == NpLog(RAdd(I(1), ratio))
         IN  IF ~IsFinite(log) THEN log
             ELSE RAdd(I(1), RMul(log, R(7, 10)))

calculate_organic_boost(brand_budget, ua_budget) ==
    IF ua_budget <= 0
    THEN I(1)
    ELSE LET ratio == R(brand_budget, ua_budget)
             log == NpLog(RAdd(I(1), ratio))
         IN  IF ~IsFinite(log)
             THEN log          \* 1.0 + (-inf) * 0.7 = -inf, min(-inf, 3.0) = -inf;
                               \* nan stays nan, and min(nan, 3.0) returns nan
             ELSE RMin(RAdd(I(1), RMul(log, R(7, 10))), I(3))

\* Inputs of the check of calculate_organic_boost: no UA budget, UA budgets
\* from one currency unit to a campaign, brand budgets from a refund to
\* 2000 times the UA budget.
BoostUaBudgets == {-5000, 0, 1, 1000, 90000}

BoostBrandBudgets ==
    {-1000, -500, 0, 1, 10, 500, 1000, 2000, 17000, 45000, 90000, 180000, 2000000}

BoostArgs == [brand_budget : BoostBrandBudgets, ua_budget : BoostUaBudgets]

InitBoost ==
    /\ ProcessInit
    /\ fn = "idle"
    /\ args \in BoostArgs
    /\ ret = NoValue

CallBoost ==
    /\ fn = "idle"
    /\ fn' = "calculate_organic_boost"
    /\ ret' = calculate_organic_boost(args.brand_budget, args.ua_budget)
    /\ UNCHANGED <<args, process>>

NextBoost == CallBoost

SpecBoost == InitBoost /\ [][NextBoost]_vars

BoostDone == fn = "calculate_organic_boost"

(***************************************************************************)
(* C14: calculate_organic_boost returns exactly 1.0 when brand_budget = 0  *)
(* or ua_budget <= 0, is non-decreasing in brand_budget for a fixed        *)
(* ua_budget > 0 (over the brand budgets above -ua_budget, for which the   *)
(* logarithm is a number), and lies in [1.0, 3.0] for all non-negative     *)
(* budgets: the cap of 3 is never exceeded.                                *)
(***************************************************************************)
C14_BoostBounds ==
    BoostDone
        => /\ (args.brand_budget = 0 \/ args.ua_budget <= 0) => ret = I(1)
           /\ (args.ua_budget > 0 /\ args.brand_budget > -args.ua_budget)
                  => /\ IsFinite(ret)
                     /\ \A more \in BoostBrandBudgets :
                            more >= args.brand_budget
                                => RLe(ret, calculate_organic_boost(more, args.ua_budget))
           /\ (args.brand_budget >= 0 /\ args.ua_budget >= 0)
                  => RLe(I(1), ret) /\ RLe(ret, I(3))

\* A brand budget of 17 times the UA budget, which the cap holds at 3, next
\* to a brand budget equal to the UA budget, whose boost is between 1 and 3.
C14_Witness ==
    /\ BoostDone
    /\ args.ua_budget = 1000
    /\ args.brand_budget = 17000
    /\ ret = I(3)
    /\ RLt(I(3), calculate_organic_boost_NoCap(args.brand_budget, args.ua_budget))
    /\ RLt(I(1), calculate_organic_boost(1000, args.ua_budget))
    /\ RLt(calculate_organic_boost(1000, args.ua_budget), I(3))

----------------------------------------------------------------------------
(***************************************************************************)
(* generate_nru_series_v85 (main.py 542-701).                              *)
(***************************************************************************)

\* Section 1: the CPA after saturation.
SaturationFactor(ua_budget, cpa_saturation_enabled) ==
    IF cpa_saturation_enabled /\ ua_budget > 0
    THEN RAdd(I(1), RMul(R(ua_budget, 500000000), R(5, 100)))
    ELSE I(1)

\* EffectiveCpa with a saturation that engages above the reference scale only.
EffectiveCpa_AboveScale(ua_budget, target_cpa, cpa_saturation_enabled) ==
    IF cpa_saturation_enabled /\ ua_budget > 500000000
    THEN RInt(RMul(I(target_cpa), SaturationFactor(ua_budget, cpa_saturation_enabled)))
    ELSE target_cpa

EffectiveCpa(ua_budget, target_cpa, cpa_saturation_enabled) ==
    IF cpa_saturation_enabled /\ ua_budget > 0
    THEN RInt(RMul(I(target_cpa), SaturationFactor(ua_budget, cpa_saturation_enabled)))
    ELSE target_cpa

\* The paid users of a budget, rounded up to the next user.
PaidNru_RoundedUp(budget, effective_cpa) ==
    IF effective_cpa > 0 THEN (budget + effective_cpa - 1) \div effective_cpa ELSE 0

\* Section 2: x // effective_cpa if effective_cpa > 0 else 0.
PaidNru(budget, effective_cpa) ==
    IF effective_cpa > 0 THEN budget \div effective_cpa ELSE 0

\* Section 4: the bell curve exp(-0.5 * ((day - 15) / 20) ** 2), in thousandths.
BrandEffect(day) == ExpNegMilli(Trunc(-((day - 15) * (day - 15)) * 1000, 800))

\* brand_effect_curve without the normalisation of lines 636-638.
brand_effect_curve_NotNormalised(days, brand_budget, brand_time_lag_enabled) ==
    IF brand_time_lag_enabled /\ brand_budget > 0
    THEN List([i \in 1 .. days |-> FromMilli(BrandEffect(i - 1))])
    ELSE List([i \in 1 .. days |-> IF i - 1 < 30 THEN R(1, 30) ELSE I(0)])

\* brand_effect_curve: the share of the organic total that lands on each day.
brand_effect_curve(days, brand_budget, brand_time_lag_enabled) ==
    IF brand_time_lag_enabled /\ brand_budget > 0
    THEN LET effect == List([i \in 1 .. days |-> BrandEffect(i - 1)])
             total_effect == SumSeq(effect)
         IN  List([i \in 1 .. days |->
                 IF total_effect > 0 THEN R(effect[i], total_effect) ELSE I(0)])
    ELSE List([i \in 1 .. days |-> IF i - 1 < 30 THEN R(1, 30) ELSE I(0)])

\* Section 5-1: the launch burst of days 1 to 3, 80% / 10% / 10%.
burst_distribution == <<R(8, 10), R(1, 10), R(1, 10)>>

\* The launch burst landing on day 1 as a whole.
BurstDaily_DayOne(d1_burst_users, day) == IF day = 0 THEN d1_burst_users ELSE 0

BurstDaily(d1_burst_users, day) ==
    IF day < Len(burst_distribution)
    THEN RInt(RMul(I(d1_burst_users), At(burst_distribution, day)))
    ELSE 0

\* Section 5-2: [1 / t ** 0.8 for t in 1 .. launch_period], in thousandths.
nru_decay_pattern(launch_period) ==
    List([t \in 1 .. launch_period |-> PowMilli(t, R(-4, 5))])

d1_scale_NoArea(total, pattern) == R(total, 1000)

\* d1_scale = total / pattern_area if pattern_area > 0 else 0, with the
\* pattern in thousandths.
d1_scale(total, pattern) ==
    LET pattern_area == SumSeq(pattern)
    IN  IF pattern_area > 0 THEN R(total, pattern_area) ELSE I(0)

\* Section 5-3: int(organic_nru_total * brand_effect_curve[day]).
OrganicDaily(organic_nru_total, effect) == RInt(RMul(I(organic_nru_total), effect))

\* Section 5-4: max(int(base_sustaining_nru * exp(-0.1 * months_after_launch)), 5).
SustainingDaily(base_sustaining_nru, launch_period, day) ==
    IF day >= launch_period
    THEN LET decay == ExpNegMilli(Trunc(-(day - launch_period) * 10, 3))
         IN  Max(RInt(RMul(I(base_sustaining_nru), FromMilli(decay))), 5)
    ELSE 0

generate_nru_series_v85(ua_budget, brand_budget, target_cpa, base_organic_ratio, days, launch_period, pre_marketing_ratio, wishlist_conversion_rate, cpa_saturation_enabled, brand_time_lag_enabled) ==
    LET effective_cpa == EffectiveCpa(ua_budget, target_cpa, cpa_saturation_enabled)
        pre_launch_ua == RInt(RMul(I(ua_budget), pre_marketing_ratio))
        post_launch_ua == ua_budget - pre_launch_ua
        pre_launch_paid_nru == PaidNru(pre_launch_ua, effective_cpa)
        post_launch_paid_nru == PaidNru(post_launch_ua, effective_cpa)
        organic_boost == calculate_organic_boost(brand_budget, ua_budget)
        total_paid_nru == pre_launch_paid_nru + post_launch_paid_nru
    IN  IF ~IsFinite(organic_boost)
        THEN \* int() of an infinite or nan product: OverflowError / ValueError
             [raised |-> TRUE]
        ELSE
    LET effective_organic_ratio == RMul(base_organic_ratio, organic_boost)
        organic_nru_total == RInt(RMul(I(total_paid_nru), effective_organic_ratio))
        wishlist_users ==
            IF RLt(I(0), wishlist_conversion_rate)
            THEN RInt(RDiv(I(pre_launch_paid_nru), wishlist_conversion_rate))
            ELSE 0
        d1_burst_users == RInt(RMul(I(wishlist_users), wishlist_conversion_rate))
        n == Max(days, 0)
        effect_curve == brand_effect_curve(n, brand_budget, brand_time_lag_enabled)
        pattern == nru_decay_pattern(launch_period)
        scale == d1_scale(post_launch_paid_nru, pattern)
        burst == List([i \in 1 .. n |-> BurstDaily(d1_burst_users, i - 1)])
        post_launch == List([i \in 1 .. n |->
                          IF i - 1 < launch_period
                          THEN Max(RInt(RMul(scale, I(pattern[i]))), 0)
                          ELSE 0])
        organic == List([i \in 1 .. n |-> OrganicDaily(organic_nru_total, effect_curve[i])])
        before_sustaining == List([i \in 1 .. n |-> burst[i] + post_launch[i] + organic[i]])
        d30_nru == IF n > 29 THEN At(before_sustaining, 29) ELSE 100
        base_sustaining_nru == RInt(RMul(I(d30_nru), R(5, 100)))
        sustaining == List([i \in 1 .. n |->
                         SustainingDaily(base_sustaining_nru, launch_period, i - 1)])
    IN  [raised |-> FALSE,
         nru_series |-> List([i \in 1 .. n |-> Max(before_sustaining[i] + sustaining[i], 5)]),
         total_paid_nru |-> total_paid_nru,
         organic_nru_total |-> organic_nru_total,
         organic_boost |-> organic_boost,
         meta_info |-> [effective_cpa |-> effective_cpa,
                        pre_launch_users |-> pre_launch_paid_nru,
                        wishlist_users |-> wishlist_users,
                        d1_burst_users |-> d1_burst_users,
                        post_launch_paid_nru |-> post_launch_paid_nru],
         \* the budget split of section 2-1 and the increments of sections
         \* 5-1 to 5-4, kept for the checks
         parts |-> [pre_launch_ua |-> pre_launch_ua, post_launch_ua |-> post_launch_ua,
                    burst |-> burst, post_launch |-> post_launch,
                    organic |-> organic, sustaining |-> sustaining]]

\* Inputs of the check of generate_nru_series_v85.
\* 400 000 000 lies below the reference scale of the saturation, 1 000 000 000
\* above it.
NruBudgets == {0, 90000, 400000000, 1000000000}

NruBrandBudgets == {0, 45000, -90000}

NruCpas == {7, 2000}

NruDays == {1, 3, 30, 32}

NruLaunchPeriods == {1, 3, 30}

\* The largest budget is paired with the default CPA only: the user counts
\* stay within the integers of the checker. On the conversion rates of the
\* set, 0.15, 0.9 and 1, the binary floating-point quotient and product of
\* section 3 truncate to the same integers as the exact ones for every user
\* count these budgets buy.
NruArgs ==
    {a \in [ua_budget : NruBudgets, brand_budget : NruBrandBudgets,
            target_cpa : NruCpas,
            base_organic_ratio : {I(0), R(1, 5)}, days : NruDays,
            launch_period : NruLaunchPeriods,
            pre_marketing_ratio : {I(0), R(3, 10), I(1)},
            wishlist_conversion_rate : {R(3, 20), R(9, 10), I(1)},
            cpa_saturation_enabled : BOOLEAN, brand_time_lag_enabled : BOOLEAN] :
        a.ua_budget <= 90000 \/ a.target_cpa = 2000}

InitNru ==
    /\ ProcessInit
    /\ fn = "idle"
    /\ args \in NruArgs
    /\ ret = NoValue

CallNru ==
    /\ fn = "idle"
    /\ fn' = "generate_nru_series_v85"
    /\ ret' = generate_nru_series_v85(
                 args.ua_budget, args.brand_budget, args.target_cpa,
                 args.base_organic_ratio, args.days, args.launch_period,
                 args.pre_marketing_ratio, args.wishlist_conversion_rate,
                 args.cpa_saturation_enabled, args.brand_time_lag_enabled)
    /\ UNCHANGED <<args, process>>

NextNru == CallNru

SpecNru == InitNru /\ [][NextNru]_vars

NruDone == fn = "generate_nru_series_v85" /\ ~ret.raised

(***************************************************************************)
(* C4: in generate_nru_series_v85, when days >= launch_period and          *)
(* post_launch_paid_nru >= 0, the post-launch paid-user increments added   *)
(* to days 1..launch_period sum to a value between post_launch_paid_nru -  *)
(* launch_period and post_launch_paid_nru.                                 *)
(***************************************************************************)
C4_AreaNormalisation ==
    (NruDone /\ args.days >= args.launch_period
             /\ ret.meta_info.post_launch_paid_nru >= 0)
        => LET total == SumSeq(SubSeq(ret.parts.post_launch, 1, args.launch_period))
           IN  /\ total <= ret.meta_info.post_launch_paid_nru
               /\ total >= ret.meta_info.post_launch_paid_nru - args.launch_period

\* A 30-day launch window over which several hundred paid users are spread.
C4_Witness ==
    /\ NruDone
    /\ args.days = 32
    /\ args.launch_period = 30
    /\ ret.meta_info.post_launch_paid_nru > 400
    /\ At(ret.parts.post_launch, 0) > At(ret.parts.post_launch, 29)
    /\ At(ret.parts.post_launch, 29) > 0

(***************************************************************************)
(* C11: in generate_nru_series_v85 with CPA saturation enabled,            *)
(* effective_cpa = target_cpa for every UA budget at or below the          *)
(* reference scale of 500,000,000, and effective_cpa is above target_cpa   *)
(* only for budgets above that scale.                                      *)
(***************************************************************************)
C11_SaturationAboveScaleOnly ==
    (NruDone /\ args.cpa_saturation_enabled)
        => /\ args.ua_budget <= 500000000
                  => ret.meta_info.effective_cpa = args.target_cpa
           /\ ret.meta_info.effective_cpa > args.target_cpa
                  => args.ua_budget > 500000000

(***************************************************************************)
(* C11 as the code has it: the saturation is linear in the budget at every *)
(* scale.  With saturation enabled and ua_budget > 0, effective_cpa =      *)
(* target_cpa + int(target_cpa * ua_budget / 500,000,000 * 0.05), which is *)
(* never below target_cpa and is above it as soon as the product reaches   *)
(* one currency unit; with saturation disabled or ua_budget <= 0,          *)
(* effective_cpa = target_cpa.                                             *)
(***************************************************************************)
C11_SaturationLinearInBudget ==
    NruDone
        => IF args.cpa_saturation_enabled /\ args.ua_budget > 0
           THEN LET rise == RInt(RMul(I(args.target_cpa),
                                      RMul(R(args.ua_budget, 500000000), R(1, 20))))
                IN  /\ ret.meta_info.effective_cpa = args.target_cpa + rise
                    /\ ret.meta_info.effective_cpa >= args.target_cpa
           ELSE ret.meta_info.effective_cpa = args.target_cpa

\* A budget below the reference scale that raises the CPA from 2000 to 2080.
C11_Witness ==
    /\ NruDone
    /\ args.cpa_saturation_enabled
    /\ args.ua_budget = 400000000
    /\ args.target_cpa = 2000
    /\ ret.meta_info.effective_cpa = 2080

(***************************************************************************)
(* C16: in generate_nru_series_v85 with brand time-lag enabled and         *)
(* brand_budget > 0, for every horizon days >= 1 the organic daily         *)
(* increments spread by the bell curve sum to a value between              *)
(* organic_nru_total - days and organic_nru_total.                         *)
(***************************************************************************)
C16_BellCurvePreservesTotal ==
    (NruDone /\ args.brand_time_lag_enabled /\ args.brand_budget > 0 /\ args.days >= 1)
        => /\ Len(ret.parts.organic) = args.days
           /\ SumSeq(ret.parts.organic) <= ret.organic_nru_total
           /\ SumSeq(ret.parts.organic) >= ret.organic_nru_total - args.days

\* 32 days over which more than a hundred organic users are spread, the
\* peak day above the launch day, with users lost to the truncation.
C16_Witness ==
    /\ NruDone
    /\ args.brand_time_lag_enabled
    /\ args.brand_budget > 0
    /\ args.days = 32
    /\ ret.organic_nru_total > 100
    /\ At(ret.parts.organic, 15) > At(ret.parts.organic, 0)
    /\ SumSeq(ret.parts.organic) < ret.organic_nru_total

(***************************************************************************)
(* C27: in generate_nru_series_v85, for ua_budget >= 0, target_cpa >= 1    *)
(* and pre_marketing_ratio in [0, 1], the pre-launch and the post-launch   *)
(* budget add up to ua_budget, and the paid users cost no more than the    *)
(* budget: total_paid_nru * effective_cpa <= ua_budget.                    *)
(***************************************************************************)
C27_PaidWithinBudget ==
    (NruDone /\ args.ua_budget >= 0 /\ args.target_cpa >= 1
             /\ RLe(I(0), args.pre_marketing_ratio) /\ RLe(args.pre_marketing_ratio, I(1)))
        => /\ ret.parts.pre_launch_ua + ret.parts.post_launch_ua = args.ua_budget
           /\ ret.parts.pre_launch_ua >= 0
           /\ ret.parts.post_launch_ua >= 0
           /\ ret.meta_info.effective_cpa >= 1
           /\ ret.total_paid_nru * ret.meta_info.effective_cpa <= args.ua_budget

\* A budget of 90000 at a CPA of 7, 30% of it spent before launch: 3857 and
\* 9000 users are bought, one currency unit is left over.
C27_Witness ==
    /\ NruDone
    /\ args.ua_budget = 90000
    /\ args.target_cpa = 7
    /\ args.pre_marketing_ratio = R(3, 10)
    /\ ret.parts.pre_launch_ua = 27000
    /\ ret.parts.post_launch_ua = 63000
    /\ ret.total_paid_nru = 12857
    /\ ret.total_paid_nru * ret.meta_info.effective_cpa = 89999

(***************************************************************************)
(* C28: in generate_nru_series_v85, for every wishlist_conversion_rate in  *)
(* (0, 1], d1_burst_users is pre_launch_paid_nru or pre_launch_paid_nru    *)
(* - 1, whatever the rate, and the users added to days 1, 2 and 3 are      *)
(* trunc(0.8 * d1_burst_users), trunc(0.1 * d1_burst_users) and            *)
(* trunc(0.1 * d1_burst_users).                                            *)
(***************************************************************************)
C28_BurstShare(d1_burst_users, day) ==
    CASE day = 0 -> (8 * d1_burst_users) \div 10
      [] day \in {1, 2} -> d1_burst_users \div 10
      [] OTHER -> 0

C28_BurstIsPreLaunchUsers ==
    (NruDone /\ RLt(I(0), args.wishlist_conversion_rate)
             /\ RLe(args.wishlist_conversion_rate, I(1))
             /\ ret.meta_info.pre_launch_users >= 0)
        => /\ ret.meta_info.d1_burst_users
                  \in {ret.meta_info.pre_launch_users, ret.meta_info.pre_launch_users - 1}
           /\ \A day \in Range(Len(ret.parts.burst)) :
                  At(ret.parts.burst, day) = C28_BurstShare(ret.meta_info.d1_burst_users, day)

\* 3857 pre-launch users at a conversion rate of 0.9: 4285 wishlist users,
\* of which 3856 arrive, 3084 of them on day 1.
C28_Witness ==
    /\ NruDone
    /\ args.wishlist_conversion_rate = R(9, 10)
    /\ Len(ret.parts.burst) >= 4
    /\ ret.meta_info.pre_launch_users = 3857
    /\ ret.meta_info.wishlist_users = 4285
    /\ ret.meta_info.d1_burst_users = 3856
    /\ SubSeq(ret.parts.burst, 1, 4) = <<3084, 385, 385, 0>>

----------------------------------------------------------------------------
(***************************************************************************)
(* get_benchmark_data (main.py 275-297).                                   *)
(***************************************************************************)
Scenarios == <<"best", "normal", "worst">>

RECURSIVE RSumRange(_, _, _)
RSumRange(s, first, last) ==
    IF first > last THEN I(0)
    ELSE IF first = last THEN s[first]
    ELSE LET mid == (first + last) \div 2
         IN  RAdd(RSumRange(s, first, mid), RSumRange(s, mid + 1, last))

RSum(s) == RSumRange(s, 1, Len(s))

\* np.mean of a non-empty list of floats.
NpMean(s) == RDiv(RSum(s), I(Len(s)))

\* The rows of the table for the platforms it knows under the genre.
BenchmarkRows(table, genre, platforms) ==
    LET Known(platform) == platform \in DOMAIN table /\ genre \in DOMAIN table[platform]
    IN  List([i \in 1 .. Len(SelectSeq(platforms, Known)) |->
            table[SelectSeq(platforms, Known)[i]][genre]])

\* The field-wise np.mean of the rows; the MMORPG row of PC when there is none.
BenchmarkMean(values) ==
    IF values = <<>>
    THEN Bm(32, 20, 11, 6, 6, 78000)
    ELSE [d1 |-> NpMean([i \in 1 .. Len(values) |-> values[i].d1]),
          d7 |-> NpMean([i \in 1 .. Len(values) |-> values[i].d7]),
          d30 |-> NpMean([i \in 1 .. Len(values) |-> values[i].d30]),
          d90 |-> NpMean([i \in 1 .. Len(values) |-> values[i].d90]),
          pr |-> NpMean([i \in 1 .. Len(values) |-> values[i].pr]),
          arppu |-> NpMean([i \in 1 .. Len(values) |-> values[i].arppu])]

get_benchmark_data(genre, platforms) ==
    BenchmarkMean(BenchmarkRows(tables.BENCHMARK_DATA, genre,
                                IF platforms = <<>> THEN <<"PC">> ELSE platforms))

(***************************************************************************)
(* scipy's curve_fit is not computed: what it returns is an input of the   *)
(* call, a record [converged, a, b].  A fit that does not converge raises, *)
(* and the except branch of the caller supplies the fallback.              *)
(***************************************************************************)

\* generate_benchmark_retention_curve (main.py 299-317); the fit is unbounded
\* there, the model draws it with b <= 0.
generate_benchmark_retention_curve(benchmark, days, fit) ==
    LET a == IF fit.converged THEN fit.a ELSE benchmark.d1
        b == IF fit.converged THEN fit.b ELSE R(-1, 2)
    IN  List([day \in 1 .. Max(days, 0) |->
            ToMilli(RMax(RMin(retention_curve(day, a, b), I(1)), R(1, 1000)))])

\* fit_retention_curve (main.py 378-397): NoFit stands for (None, None).
NoFit == [none |-> TRUE]

\* fit_retention_curve whose except branch returns (None, None).
fit_retention_curve_NoneOnFailure(retention_data, fit) ==
    LET valid == {i \in 1 .. Len(retention_data) :
                     retention_data[i] > 0 /\ retention_data[i] <= 1000}
    IN  IF Cardinality(valid) < 3
        THEN NoFit
        ELSE IF fit.converged
             THEN [none |-> FALSE, a |-> fit.a, b |-> fit.b]
             ELSE NoFit

fit_retention_curve(retention_data, fit) ==
    LET valid == {i \in 1 .. Len(retention_data) :
                     retention_data[i] > 0 /\ retention_data[i] <= 1000}
    IN  IF Cardinality(valid) < 3
        THEN NoFit
        ELSE IF fit.converged
             THEN [none |-> FALSE, a |-> fit.a, b |-> fit.b]
             ELSE [none |-> FALSE, a |-> FromMilli(retention_data[1]), b |-> R(-1, 2)]

\* calculate_retention_coefficients (main.py 399-415).
calculate_retention_coefficients(selected_games, raw_data, fit) ==
    LET retention_games == raw_data.games.retention
        InStore(game) == game \in DOMAIN retention_games
        present == SelectSeq(selected_games, InStore)
        fits == List([i \in 1 .. Len(present) |->
                    fit_retention_curve(retention_games[present[i]], fit)])
        Fitted(f) == ~f.none
        ok == SelectSeq(fits, Fitted)
    IN  IF ok = <<>>
        THEN [a |-> I(1), b |-> R(-1, 2)]
        ELSE [a |-> NpMean([i \in 1 .. Len(ok) |-> ok[i].a]),
              b |-> NpMean([i \in 1 .. Len(ok) |-> ok[i].b])]

\* Inputs of the check of the two functions.  The store takes any float of
\* an uploaded CSV row (main.py 1558-1563): a series may hold zeros, values
\* above 1 and a day-1 value given in percent.
FitSeries ==
    {<<400, 280, 230, 200, 180>>, <<500, 300>>, <<0, 300, 200, 100>>,
     <<45000, 300, 200, 100>>, <<1000, 0, 0, 2000>>}

FitSelections == {<<>>, <<"Missing">>, <<"GameA">>, <<"GameB", "GameA", "Missing">>}

\* What curve_fit returns: a point inside bounds=([0, -2], [2, 0]), or an
\* exception.
FitOutcomes ==
    {[converged |-> FALSE]}
        \cup [converged : {TRUE}, a : {I(0), R(2, 5), I(2)}, b : {I(-2), R(-1, 2), I(0)}]

\* curve_fit raises when the initial guess p0 = [retention_data[0], -0.5] lies
\* outside the bounds.
FeasibleGuess(retention_data) == retention_data[1] >= 0 /\ retention_data[1] <= 2000

FitArgs ==
    {a \in [selected_games : FitSelections,
            raw_data : [games : [retention : [{"GameA", "GameB"} -> FitSeries]]],
            fit : FitOutcomes] :
        a.fit.converged
            => \A game \in DOMAIN a.raw_data.games.retention :
                   FeasibleGuess(a.raw_data.games.retention[game])}

InitFit ==
    /\ ProcessInit
    /\ fn = "idle"
    /\ args \in FitArgs
    /\ ret = NoValue

\* fit_retention_curve on the series the store holds for GameA.
CallFit ==
    /\ fn = "idle"
    /\ fn' = "fit_retention_curve"
    /\ ret' = fit_retention_curve(args.raw_data.games.retention["GameA"], args.fit)
    /\ UNCHANGED <<args, process>>

CallCoefficients ==
    /\ fn = "idle"
    /\ fn' = "calculate_retention_coefficients"
    /\ ret' = calculate_retention_coefficients(args.selected_games, args.raw_data, args.fit)
    /\ UNCHANGED <<args, process>>

NextFit == CallFit \/ CallCoefficients

SpecFit == InitFit /\ [][NextFit]_vars

FitDone == fn = "fit_retention_curve"

CoefficientsDone == fn = "calculate_retention_coefficients"

(***************************************************************************)
(* C18: for every historical retention series and every optimiser outcome  *)
(* (success or failure), the parameters returned by fit_retention_curve    *)
(* when it returns a pair, and the pair returned by                        *)
(* calculate_retention_coefficients, satisfy a in [0, 2] and b in [-2, 0]. *)
(***************************************************************************)
C18_InBounds(a, b) ==
    /\ RLe(I(0), a) /\ RLe(a, I(2))
    /\ RLe(I(-2), b) /\ RLe(b, I(0))

C18_ParametersInBounds ==
    /\ (FitDone /\ ~ret.none) => C18_InBounds(ret.a, ret.b)
    /\ CoefficientsDone => C18_InBounds(ret.a, ret.b)

(***************************************************************************)
(* C19: calculate_retention_coefficients returns (1.0, -0.5) whenever      *)
(* fitting is infeasible for the selection: no game selected, every        *)
(* selected game absent from the store, every selected game with fewer     *)
(* than 3 valid points (0 < y <= 1), or the fit of the selected game       *)
(* diverging.                                                              *)
(***************************************************************************)
C19_ValidPoints(retention_data) ==
    Cardinality({i \in 1 .. Len(retention_data) :
                    retention_data[i] > 0 /\ retention_data[i] <= 1000})

\* The selected games that the store holds with at least 3 valid points.
C19_Fittable(selected_games, retention_games) ==
    LET CanFit(game) == /\ game \in DOMAIN retention_games
                        /\ C19_ValidPoints(retention_games[game]) >= 3
    IN  SelectSeq(selected_games, CanFit)

C19_Default == [a |-> I(1), b |-> R(-1, 2)]

C19_FirstValues(fittable, retention_games) ==
    List([i \in 1 .. Len(fittable) |-> FromMilli(retention_games[fittable[i]][1])])

C19_Expected(fittable, retention_games, fit) ==
    IF fittable = <<>> THEN C19_Default
    ELSE IF fit.converged THEN [a |-> fit.a, b |-> fit.b]
    ELSE [a |-> RDiv(RSum(C19_FirstValues(fittable, retention_games)), I(Len(fittable))),
          b |-> R(-1, 2)]

----------------------------------------------------------------------------
(***************************************************************************)
(* calculate_pr_pattern and calculate_arppu_pattern (main.py 703-743):     *)
(* the per-day average over the selected games that the store holds, of    *)
(* the values > 0, padded with its last value to PatternDays entries.      *)
(***************************************************************************)
PatternDays == 365

\* min(len(games[g]) for g in valid_games), capped at 365.
RECURSIVE MinLen(_, _)
MinLen(games, valid_games) ==
    IF Len(valid_games) = 1 THEN Len(games[valid_games[1]])
    ELSE Min(Len(games[Head(valid_games)]), MinLen(games, Tail(valid_games)))

\* One day of a pattern: the mean of the positive values, or the default.
PatternDay(games, valid_games, day, default) ==
    LET Positive(g) == day < Len(games[g]) /\ At(games[g], day) > 0
        have == SelectSeq(valid_games, Positive)
    IN  IF have = <<>> THEN default
        ELSE NpMean([i \in 1 .. Len(have) |-> I(At(games[have[i]], day))])

\* The store keeps a payment rate in thousandths.
calculate_pr_pattern(selected_games, raw_data) ==
    LET pr_games == raw_data.games.payment_rate
        InStore(g) == g \in DOMAIN pr_games
        valid_games == SelectSeq(selected_games, InStore)
    IN  IF valid_games = <<>>
        THEN List([i \in 1 .. PatternDays |-> 20])
        ELSE LET min_len == Min(MinLen(pr_games, valid_games), PatternDays)
                 pattern == List([i \in 1 .. min_len |->
                               RInt(RMax(PatternDay(pr_games, valid_games, i - 1, I(20)),
                                         I(1)))])
             IN  List([i \in 1 .. PatternDays |->
                     IF i <= min_len THEN pattern[i]
                     ELSE IF min_len > 0 THEN pattern[min_len] ELSE 20])

calculate_arppu_pattern(selected_games, raw_data) ==
    LET arppu_games == raw_data.games.arppu
        InStore(g) == g \in DOMAIN arppu_games
        valid_games == SelectSeq(selected_games, InStore)
    IN  IF valid_games = <<>>
        THEN List([i \in 1 .. PatternDays |-> 50000])
        ELSE LET min_len == Min(MinLen(arppu_games, valid_games), PatternDays)
                 pattern == List([i \in 1 .. min_len |->
                               RInt(RMax(PatternDay(arppu_games, valid_games, i - 1,
                                                    I(50000)), I(1000)))])
             IN  List([i \in 1 .. PatternDays |->
                     IF i <= min_len THEN pattern[i]
                     ELSE IF min_len > 0 THEN pattern[min_len] ELSE 50000])

----------------------------------------------------------------------------
(***************************************************************************)
(* The blenders (main.py 190-219, 319-368).                                *)
(***************************************************************************)

\* s[i] if i < len(s) else s[-1]
AtOrLast(s, i) == IF i < Len(s) THEN At(s, i) ELSE Last(s)

\* The time-decay blend with the two weights exchanged.
calculate_time_decay_blended_retention_Swapped(internal_curve, benchmark_curve, days, quality_score) ==
    List([i \in 1 .. Max(days, 0) |->
        LET day == i - 1
            weight_benchmark == calculate_time_decay_weight(day + 1, days)
            weight_internal == RSub(I(1), weight_benchmark)
            internal_val == FromMilli(AtOrLast(internal_curve, day))
            benchmark_val == FromMilli(AtOrLast(benchmark_curve, day))
            adjusted_benchmark == RMul(benchmark_val, quality_score)
            blended_val == RAdd(RMul(internal_val, weight_internal),
                                RMul(adjusted_benchmark, weight_benchmark))
        IN  ToMilli(RMax(RMin(blended_val, I(1)), R(1, 1000)))])

calculate_time_decay_blended_retention(internal_curve, benchmark_curve, days, quality_score) ==
    List([i \in 1 .. Max(days, 0) |->
        LET day == i - 1
            weight_internal == calculate_time_decay_weight(day + 1, days)
            weight_benchmark == RSub(I(1), weight_internal)
            internal_val == FromMilli(AtOrLast(internal_curve, day))
            benchmark_val == FromMilli(AtOrLast(benchmark_curve, day))
            adjusted_benchmark == RMul(benchmark_val, quality_score)
            blended_val == RAdd(RMul(internal_val, weight_internal),
                                RMul(adjusted_benchmark, weight_benchmark))
        IN  ToMilli(RMax(RMin(blended_val, I(1)), R(1, 1000)))])

calculate_blended_retention(internal_curve, benchmark_curve, weight_internal) ==
    LET weight_benchmark == RSub(I(1), weight_internal)
    IN  List([j \in 1 .. Len(internal_curve) |->
            LET i == j - 1
                internal_val == FromMilli(AtOrLast(internal_curve, i))
                benchmark_val == FromMilli(AtOrLast(benchmark_curve, i))
                blended_val == RAdd(RMul(internal_val, weight_internal),
                                    RMul(benchmark_val, weight_benchmark))
            IN  ToMilli(RMax(RMin(blended_val, I(1)), R(1, 1000)))])

\* calculate_blended_pr with the loop of calculate_blended_retention, which
\* runs over the internal series instead of the horizon.
calculate_blended_pr_OverPattern(internal_pr, benchmark_pr, weight_internal, days) ==
    LET weight_benchmark == RSub(I(1), weight_internal)
    IN  List([j \in 1 .. Len(internal_pr) |->
            LET internal_val == FromMilli(AtOrLast(internal_pr, j - 1))
                blended_val == RAdd(RMul(internal_val, weight_internal),
                                    RMul(benchmark_pr, weight_benchmark))
            IN  ToMilli(RMax(RMin(blended_val, I(1)), R(1, 1000)))])

calculate_blended_pr(internal_pr, benchmark_pr, weight_internal, days) ==
    LET weight_benchmark == RSub(I(1), weight_internal)
    IN  List([j \in 1 .. Max(days, 0) |->
            LET internal_val == FromMilli(AtOrLast(internal_pr, j - 1))
                blended_val == RAdd(RMul(internal_val, weight_internal),
                                    RMul(benchmark_pr, weight_benchmark))
            IN  ToMilli(RMax(RMin(blended_val, I(1)), R(1, 1000)))])

\* An ARPPU stored in a list is kept in whole currency units.
calculate_blended_arppu(internal_arppu, benchmark_arppu, weight_internal, days) ==
    LET weight_benchmark == RSub(I(1), weight_internal)
    IN  List([j \in 1 .. Max(days, 0) |->
            LET internal_val == I(AtOrLast(internal_arppu, j - 1))
                blended_val == RAdd(RMul(internal_val, weight_internal),
                                    RMul(benchmark_arppu, weight_benchmark))
            IN  RInt(RMax(blended_val, I(1000)))])

----------------------------------------------------------------------------
(***************************************************************************)
(* calculate_blended_curve of the backtest (backtest.py 27-46), the copy   *)
(* of the time-decay blend that the backtest runs, and the check of both   *)
(* blends on the same curves.                                              *)
(***************************************************************************)

\* w_int = max(0.1, 0.9 - (0.8 * i / max(1, days - 1))), backtest.py 39.
BacktestWeight(i, days) ==
    RMax(R(1, 10), RSub(R(9, 10), RDiv(RMul(R(8, 10), I(i)), I(Max(1, days - 1)))))

calculate_blended_curve(internal, benchmark, days, quality_mult) ==
    LET last_int_val == IF internal # <<>> THEN Last(internal) ELSE 0
        last_bench_val == IF benchmark # <<>> THEN Last(benchmark) ELSE 0
    IN  List([j \in 1 .. Max(days, 0) |->
            LET i == j - 1
                w_int == BacktestWeight(i, days)
                val_int == FromMilli(IF i < Len(internal) THEN At(internal, i)
                                     ELSE last_int_val)
                val_bench == FromMilli(IF i < Len(benchmark) THEN At(benchmark, i)
                                       ELSE last_bench_val)
                final_val == RAdd(RMul(val_int, w_int),
                                  RMul(RMul(val_bench, quality_mult), RSub(I(1), w_int)))
            IN  ToMilli(RMax(I(0), final_val))])

\* Inputs of the check of the blends: curves in thousandths, not empty.
BlendValues == {0, 100, 950}

BlendQualities == {QUALITY_SCORES[grade] : grade \in DOMAIN QUALITY_SCORES}

BlendArgs ==
    [internal_curve : SeqsUpTo(BlendValues, MaxLen) \ {<<>>},
     benchmark_curve : SeqsUpTo(BlendValues, MaxLen) \ {<<>>},
     days : 1 .. MaxDays,
     quality_score : BlendQualities]

InitBlend ==
    /\ ProcessInit
    /\ fn = "idle"
    /\ args \in BlendArgs
    /\ ret = NoValue

CallTimeDecayBlend ==
    /\ fn = "idle"
    /\ fn' = "calculate_time_decay_blended_retention"
    /\ ret' = calculate_time_decay_blended_retention(args.internal_curve, args.benchmark_curve,
                                                     args.days, args.quality_score)
    /\ UNCHANGED <<args, process>>

CallBlendedCurve ==
    /\ fn = "idle"
    /\ fn' = "calculate_blended_curve"
    /\ ret' = calculate_blended_curve(args.internal_curve, args.benchmark_curve,
                                      args.days, args.quality_score)
    /\ UNCHANGED <<args, process>>

NextBlend == CallTimeDecayBlend \/ CallBlendedCurve

SpecBlend == InitBlend /\ [][NextBlend]_vars

TimeDecayBlendDone == fn = "calculate_time_decay_blended_retention"

BlendedCurveDone == fn = "calculate_blended_curve"

(***************************************************************************)
(* C26: for every pair of non-empty curves, every days >= 1 and every      *)
(* quality multiplier, calculate_blended_curve of the backtest returns the *)
(* series that calculate_time_decay_blended_retention of main.py returns,  *)
(* with the same internal weight on every day.                             *)
(***************************************************************************)
C26_SameSeries ==
    BlendedCurveDone
        => /\ \A i \in Range(args.days) :
                  BacktestWeight(i, args.days) = calculate_time_decay_weight(i + 1, args.days)
           /\ ret = calculate_time_decay_blended_retention(
                        args.internal_curve, args.benchmark_curve, args.days,
                        args.quality_score)

(***************************************************************************)
(* C30: for every pair of non-increasing curves with values in [0, 1],     *)
(* every quality multiplier of QUALITY_SCORES and every days >= 1, the     *)
(* series returned by calculate_time_decay_blended_retention does not rise *)
(* from one day to the next.                                               *)
(***************************************************************************)
C30_NonIncreasing(s) == \A i \in 1 .. Len(s) - 1 : s[i + 1] <= s[i]

C30_InUnitInterval(s) == \A i \in 1 .. Len(s) : s[i] >= 0 /\ s[i] <= 1000

C30_Curves ==
    /\ C30_NonIncreasing(args.internal_curve)
    /\ C30_NonIncreasing(args.benchmark_curve)
    /\ C30_InUnitInterval(args.internal_curve)
    /\ C30_InUnitInterval(args.benchmark_curve)

C30_BlendNeverRises ==
    (TimeDecayBlendDone /\ C30_Curves) => C30_NonIncreasing(ret)

\* The benchmark after the quality multiplier is at most the internal curve
\* on every day of the horizon.
C30_BenchmarkBelowInternal ==
    \A day \in Range(args.days) :
        RLe(RMul(FromMilli(AtOrLast(args.benchmark_curve, day)), args.quality_score),
            FromMilli(AtOrLast(args.internal_curve, day)))

\* The weight moves from the internal curve to the benchmark: the blend
\* does not rise when the benchmark is the lower of the two.
C30_BlendFallsTowardsLowerBenchmark ==
    (TimeDecayBlendDone /\ C30_Curves /\ C30_BenchmarkBelowInternal)
        => C30_NonIncreasing(ret)

\* Three days over an internal curve above the benchmark: the blend falls.
C30_Witness ==
    /\ TimeDecayBlendDone
    /\ args.internal_curve = <<950, 100>>
    /\ args.benchmark_curve = <<100, 0>>
    /\ args.days = 3
    /\ args.quality_score = R(12, 10)
    /\ C30_BenchmarkBelowInternal
    /\ ret[1] > ret[2] /\ ret[2] > ret[3]

----------------------------------------------------------------------------
(***************************************************************************)
(* calculate_seasonality (main.py 84-171).                                 *)
(*                                                                         *)
(* A date is [month, day, weekday] with weekday 0 = Monday; the calendar   *)
(* is the one of a year without a 29th of February.  The generator that    *)
(* random.seed(42) resets is a fixed stream of draws of random.random(),   *)
(* in thousandths: the stream is an input of the call, read cyclically,    *)
(* and each random.uniform consumes one draw.  A factor is kept in         *)
(* thousandths, each product truncated.                                    *)
(***************************************************************************)
SPECIAL_EVENTS ==
    "korea" :> {<<1, 1>>, <<2, 1>>, <<2, 2>>, <<5, 5>>, <<9, 15>>, <<9, 16>>, <<9, 17>>, <<12, 25>>, <<12, 31>>} @@
    "japan" :> {<<1, 1>>, <<5, 3>>, <<5, 4>>, <<5, 5>>, <<8, 15>>, <<12, 25>>, <<12, 31>>} @@
    "global" :> {<<1, 1>>, <<11, 24>>, <<11, 25>>, <<12, 24>>, <<12, 25>>, <<12, 31>>} @@
    "na" :> {<<1, 1>>, <<7, 4>>, <<11, 24>>, <<11, 25>>, <<12, 24>>, <<12, 25>>, <<12, 31>>} @@
    "eu" :> {<<1, 1>>, <<12, 24>>, <<12, 25>>, <<12, 31>>} @@
    "china" :> {<<1, 1>>, <<2, 1>>, <<2, 2>>, <<10, 1>>, <<10, 2>>, <<10, 3>>} @@
    "sea" :> {<<1, 1>>, <<4, 13>>, <<4, 14>>, <<11, 1>>, <<12, 25>>, <<12, 31>>} @@
    "sa" :> {<<1, 1>>, <<2, 13>>, <<2, 14>>, <<12, 25>>, <<12, 31>>}

\* Days of the year before the first of each month.
MonthStart == <<0, 31, 59, 90, 120, 151, 181, 212, 243, 273, 304, 334, 365>>

DayOfYear(month, day) == MonthStart[month] + day - 1

\* datetime.strptime(launch_date, "%Y-%m-%d"), or datetime(2026, 11, 12), a
\* Thursday, when the string does not parse.
StartDate(launch_date) ==
    IF launch_date.parsed
    THEN [doy |-> DayOfYear(launch_date.month, launch_date.day),
          weekday |-> launch_date.weekday]
    ELSE [doy |-> DayOfYear(11, 12), weekday |-> 3]

\* start_date + timedelta(days = day)
DateAfter(start_date, day) ==
    LET doy == (start_date.doy + day) % 365
        month == CHOOSE m \in 1 .. 12 : MonthStart[m] <= doy /\ doy < MonthStart[m + 1]
    IN  [month |-> month, day |-> doy - MonthStart[month] + 1,
         weekday |-> (start_date.weekday + day) % 7]

\* str.lower on the spellings of a region name that requests use.
Lower(region) ==
    CASE region = "Korea" -> "korea"
      [] region = "GLOBAL" -> "global"
      [] region = "Japan" -> "japan"
      [] OTHER -> region

\* The k-th draw of random.random() after the seed, k = 0, 1, ...
Draw(rng, k) == rng[(k % Len(rng)) + 1]

\* random.uniform(lo, hi) on the draw u, all in thousandths.
Uniform(lo, hi, u) == lo + Trunc((hi - lo) * u, 1000)

MulMilli(x, y) == Trunc(x * y, 1000)

\* Step 1, the mean of the monthly weights of the known regions.
BaseFactor(regions, month) ==
    LET Known(region) == Lower(region) \in DOMAIN tables.SEASONALITY_BY_REGION
        known == SelectSeq(regions, Known)
    IN  IF known = <<>> THEN 1000
        ELSE ToMilli(NpMean([i \in 1 .. Len(known) |->
                 R(tables.SEASONALITY_BY_REGION[Lower(known[i])][month], 100)]))

\* Step 2, the weekly factor on the draw u.
WeeklyFactor(weekday, u) ==
    CASE weekday = 4 -> 1120 + Uniform(0, 50, u)
      [] weekday = 5 -> 1180 + Uniform(0, 70, u)
      [] weekday = 6 -> 1150 + Uniform(0, 50, u)
      [] weekday \in {0, 1} -> 920 + Uniform(0, 50, u)
      [] OTHER -> 1000 + Uniform(-20, 20, u)

\* Step 3, the regions that hold an event on the date: one draw each.
EventRegions(regions, date) ==
    LET Holds(region) ==
            /\ Lower(region) \in DOMAIN SPECIAL_EVENTS
            /\ <<date.month, date.day>> \in SPECIAL_EVENTS[Lower(region)]
    IN  SelectSeq(regions, Holds)

RECURSIVE EventFactor(_, _, _, _)
EventFactor(rng, k, n, event_factor) ==
    IF n = 0 THEN event_factor
    ELSE EventFactor(rng, k + 1, n - 1,
                     Max(event_factor, 1350 + Uniform(0, 250, Draw(rng, k))))

\* Step 4, the simulated update of every 30th day.
IsUpdateDay(day) == day > 30 /\ (day % 30 < 3 \/ day % 30 > 27)

\* One turn of the loop: the factor of the day and the draws it consumed.
SeasonalityDay(regions, start_date, rng, day, k) ==
    LET date == DateAfter(start_date, day)
        base_factor == BaseFactor(regions, date.month)
        weekly_factor == WeeklyFactor(date.weekday, Draw(rng, k))
        events == Len(EventRegions(regions, date))
        event_factor == EventFactor(rng, k + 1, events, 1000)
        k_update == k + 1 + events
        with_update ==
            IF IsUpdateDay(day)
            THEN Max(event_factor, 1200 + Uniform(0, 150, Draw(rng, k_update)))
            ELSE event_factor
        k_noise == IF IsUpdateDay(day) THEN k_update + 1 ELSE k_update
        noise == 1000 + Uniform(-30, 30, Draw(rng, k_noise))
    IN  [final_factor |->
             MulMilli(MulMilli(MulMilli(base_factor, weekly_factor), with_update), noise),
         draws |-> k_noise + 1]

\* The turns first .. last - 1 of the loop, from the draw k on: the factors
\* they append and the draws consumed when they end.  The range is split in
\* halves, the second half starting at the draw the first one ends with.
RECURSIVE SeasonalityLoop(_, _, _, _, _, _)
SeasonalityLoop(regions, start_date, rng, first, last, k) ==
    IF first >= last THEN [factors |-> <<>>, draws |-> k]
    ELSE IF first + 1 = last
    THEN LET step == SeasonalityDay(regions, start_date, rng, first, k)
         IN  [factors |-> <<step.final_factor>>, draws |-> step.draws]
    ELSE LET mid == (first + last) \div 2
             head == SeasonalityLoop(regions, start_date, rng, first, mid, k)
             rest == SeasonalityLoop(regions, start_date, rng, mid, last, head.draws)
         IN  [factors |-> head.factors \o rest.factors, draws |-> rest.draws]

calculate_seasonality(regions, launch_date, days, rng) ==
    SeasonalityLoop(regions, StartDate(launch_date), rng, 0, days, 0).factors

----------------------------------------------------------------------------
(***************************************************************************)
(* The legacy generate_nru_series (main.py 460-514) and calculate_revenue  *)
(* (main.py 772-793).                                                      *)
(***************************************************************************)

\* Phase 1: max(int(d1_scale * nru_decay_pattern[day]), 10).
\* Phase 1 without the minimum of line 502.
LaunchDaily_NoFloor(scale, pattern, day) == RInt(RMul(scale, I(pattern[day + 1])))

LaunchDaily(scale, pattern, day) == Max(RInt(RMul(scale, I(pattern[day + 1]))), 10)

\* Phase 2: max(int(sustaining_nru * exp(-0.05 * months_after_launch)), 10).
LegacySustainingDaily(sustaining_nru, launch_period, day) ==
    LET decay == ExpNegMilli(Trunc(-(day - launch_period) * 5, 3))
    IN  Max(RInt(RMul(I(sustaining_nru), FromMilli(decay))), 10)

\* generate_nru_series with total_nru taken as the height of day 1, not as
\* the total of the launch window.
generate_nru_series_D1Height(total_nru, days, launch_period, sustaining_ratio) ==
    LET pattern == nru_decay_pattern(launch_period)
        scale == R(total_nru, 1000)
        n == Max(days, 0)
        launch_days == Max(Min(launch_period, days), 0)
        launch == List([i \in 1 .. launch_days |-> LaunchDaily(scale, pattern, i - 1)])
        d30_nru == IF launch = <<>> THEN 100 ELSE Last(launch)
        sustaining_nru == RInt(RMul(RMul(I(d30_nru), sustaining_ratio), I(10)))
        nru_series == List([i \in 1 .. Max(n, launch_days) |->
                          IF i <= launch_days THEN launch[i]
                          ELSE LegacySustainingDaily(sustaining_nru, launch_period, i - 1)])
    IN  SubSeq(nru_series, 1, n)

generate_nru_series(total_nru, days, launch_period, sustaining_ratio) ==
    LET pattern == nru_decay_pattern(launch_period)
        scale == d1_scale(total_nru, pattern)
        n == Max(days, 0)
        launch_days == Max(Min(launch_period, days), 0)
        launch == List([i \in 1 .. launch_days |-> LaunchDaily(scale, pattern, i - 1)])
        d30_nru == IF launch = <<>> THEN 100 ELSE Last(launch)
        sustaining_nru == RInt(RMul(RMul(I(d30_nru), sustaining_ratio), I(10)))
        nru_series == List([i \in 1 .. Max(n, launch_days) |->
                          IF i <= launch_days THEN launch[i]
                          ELSE LegacySustainingDaily(sustaining_nru, launch_period, i - 1)])
    IN  SubSeq(nru_series, 1, n)

\* Inputs of the check of the legacy generate_nru_series: launch totals
\* from none to a campaign, horizons that end with the launch window, one
\* day after it and in its second month.
LegacyTotals == {0, 100, 1000, 50000}

LegacyLaunchPeriods == {1, 3, 30}

LegacyRatios == {I(0), R(1, 10), R(1, 2)}

LegacyArgs ==
    {[total_nru |-> c[1], launch_period |-> c[2], days |-> c[2] + c[3],
      sustaining_ratio |-> c[4]] :
        c \in LegacyTotals \X LegacyLaunchPeriods \X {0, 1, 31} \X LegacyRatios}

InitLegacy ==
    /\ ProcessInit
    /\ fn = "idle"
    /\ args \in LegacyArgs
    /\ ret = NoValue

CallLegacy ==
    /\ fn = "idle"
    /\ fn' = "generate_nru_series"
    /\ ret' = generate_nru_series(args.total_nru, args.days, args.launch_period,
                                  args.sustaining_ratio)
    /\ UNCHANGED <<args, process>>

NextLegacy == CallLegacy

SpecLegacy == InitLegacy /\ [][NextLegacy]_vars

LegacyDone == fn = "generate_nru_series"

C24_Floored(s, launch_period) == Cardinality({i \in 1 .. launch_period : s[i] = 10})

C25_NonIncreasing(s, first) == \A i \in first .. Len(s) - 1 : s[i + 1] <= s[i]

C25_ResidualInflow ==
    (LegacyDone /\ args.days > args.launch_period)
        => /\ ret[args.launch_period + 1]
                  = Max(RInt(RMul(I(ret[args.launch_period]), args.sustaining_ratio)), 10)
           /\ C25_NonIncreasing(ret, args.launch_period + 1)

\* floor(|x * y| / (1000 * d)) with the sign of x * y, without an
\* intermediate product above x * y / 1000.
MulDivMilli(x, y, d) ==
    LET ax == Abs(x)
        ay == Abs(y)
        whole == (ax \div 1000) * ay + ((ax % 1000) * ay) \div 1000
        sign == IF (x < 0) = (y < 0) THEN 1 ELSE -1
    IN  sign * (whole \div d)

\* calculate_revenue with the monthly ARPPU taken as the spend of a day.
calculate_revenue_Monthly(dau, pr, arppu) ==
    List([j \in 1 .. Len(dau) |->
        LET pr_val == AtOrLast(pr, j - 1)
            arppu_val == AtOrLast(arppu, j - 1)
        IN  MulDivMilli(dau[j] * pr_val, arppu_val, 1)])

\* dau[i] * pr_val * (arppu_val / 30), with pr in thousandths and the revenue
\* of a day kept in whole currency units.
calculate_revenue(dau, pr, arppu) ==
    List([j \in 1 .. Len(dau) |->
        LET pr_val == AtOrLast(pr, j - 1)
            arppu_val == AtOrLast(arppu, j - 1)
        IN  MulDivMilli(dau[j] * pr_val, arppu_val, 30)])

\* pr[-1] or arppu[-1] of an empty list raises IndexError (lines 783-784):
\* it is read on the first day when dau is not empty.
RevenueRaises(dau, pr, arppu) == Len(dau) > 0 /\ (pr = <<>> \/ arppu = <<>>)

\* Inputs of the check of calculate_revenue: DAU, payment rates in
\* thousandths, monthly ARPPU in currency units.
RevenueDauValues == {0, 1, 1500}

RevenuePrValues == {0, 30}

RevenueArppuValues == {-300, 0, 40000}

RevenueArgs ==
    [dau : SeqsUpTo(RevenueDauValues, MaxDays),
     pr : SeqsUpTo(RevenuePrValues, MaxLen),
     arppu : SeqsUpTo(RevenueArppuValues, MaxLen)]

InitRevenue ==
    /\ ProcessInit
    /\ fn = "idle"
    /\ args \in RevenueArgs
    /\ ret = NoValue

CallRevenue ==
    /\ fn = "idle"
    /\ fn' = "calculate_revenue"
    /\ ret' = IF RevenueRaises(args.dau, args.pr, args.arppu)
              THEN [raised |-> TRUE]
              ELSE [raised |-> FALSE,
                    revenue |-> calculate_revenue(args.dau, args.pr, args.arppu)]
    /\ UNCHANGED <<args, process>>

NextRevenue == CallRevenue

SpecRevenue == InitRevenue /\ [][NextRevenue]_vars

RevenueDone == fn = "calculate_revenue"

(***************************************************************************)
(* C23: calculate_revenue returns a series of the length of dau with       *)
(* revenue[t] = dau[t] * pr[t] * (arppu[t] / 30), the last element of pr   *)
(* or arppu standing in when that series is shorter than dau; a day with   *)
(* zero DAU has zero revenue, and for non-negative inputs revenue is never *)
(* negative.  The revenue of a day is compared in whole currency units.    *)
(***************************************************************************)
C23_Daily(dau, pr_val, arppu_val) ==
    RInt(RMul(RMul(I(dau), R(pr_val, 1000)), R(arppu_val, 30)))

C23_Holds(dau, pr, arppu, revenue) ==
    /\ Len(revenue) = Len(dau)
    /\ \A t \in Range(Len(dau)) :
           /\ At(revenue, t)
                  = C23_Daily(At(dau, t),
                              IF t < Len(pr) THEN At(pr, t) ELSE pr[Len(pr)],
                              IF t < Len(arppu) THEN At(arppu, t) ELSE arppu[Len(arppu)])
           /\ At(dau, t) = 0 => At(revenue, t) = 0
    /\ (NonNegative(dau) /\ NonNegative(pr) /\ NonNegative(arppu)) => NonNegative(revenue)

\* The claim as stated: on every input.
C23_RevenueOnEveryInput ==
    RevenueDone
        => /\ ~ret.raised
           /\ C23_Holds(args.dau, args.pr, args.arppu, ret.revenue)

\* The claim on the inputs with a last element to fall back on.
C23_RevenueFormula ==
    RevenueDone
        => /\ ret.raised = RevenueRaises(args.dau, args.pr, args.arppu)
           /\ ~ret.raised => C23_Holds(args.dau, args.pr, args.arppu, ret.revenue)

\* Three days against one payment rate and two ARPPU values: the last day
\* uses the last element of both, 1500 * 0.03 * 40000 / 30 = 60000.
C23_Witness ==
    /\ RevenueDone
    /\ args.dau = <<0, 1, 1500>>
    /\ args.pr = <<30>>
    /\ args.arppu = <<0, 40000>>
    /\ ret.revenue = <<0, 40, 60000>>

----------------------------------------------------------------------------
(***************************************************************************)
(* calculate_projection (main.py 1081-1382).                               *)
(*                                                                         *)
(* An Optional field of the request is <<>> for None and <<v>> for a       *)
(* value.  A dict is a function on the keys it holds; None and {} are      *)
(* both the empty function, as the code reads them through "or {}".        *)
(* An exception that leaves the handler is the response                    *)
(* [status |-> "error"].                                                   *)
(***************************************************************************)
ScenarioNames == {Scenarios[i] : i \in 1 .. Len(Scenarios)}

Get(dict, key, default) == IF key \in DOMAIN dict THEN dict[key] ELSE default

\* x or default, for an Optional[int] and an Optional[float]
OrInt(opt, default) == IF opt = <<>> THEN default ELSE IF opt[1] = 0 THEN default ELSE opt[1]

OrFloat(opt, default) ==
    IF opt = <<>> THEN default ELSE IF opt[1][1] = 0 THEN default ELSE opt[1]

\* x if x is not None else True
NotNoneOrTrue(opt) == IF opt = <<>> THEN TRUE ELSE opt[1]

\* round() of Python 3: the nearest integer to n / d (d > 0), ties to even.
RoundHalfEven(n, d) ==
    LET q == n \div d
        r == n % d
    IN  IF 2 * r < d THEN q
        ELSE IF 2 * r > d THEN q + 1
        ELSE IF q % 2 = 0 THEN q ELSE q + 1

\* round(scale * n / d) for an even scale, the product taken on the remainder.
RoundScaled(n, d, scale) == scale * (n \div d) + RoundHalfEven(scale * (n % d), d)

\* round(x, 2) of a float that may be infinite or nan
Round2(x) == IF IsFinite(x) THEN R(RoundScaled(x[1], x[2], 100), 100) ELSE x

MaxSeq(s) == CHOOSE m \in {s[i] : i \in 1 .. Len(s)} : \A i \in 1 .. Len(s) : s[i] <= m

\* [f(x, y) for x, y in zip(xs, ys)] stops with the shorter list.
ZipLen(xs, ys) == Min(Len(xs), Len(ys))

\* The adjustment of a scenario: the "best_vs_normal" entry for best, the
\* "worst_vs_normal" entry for worst, 0 for normal.
ScenarioAdjustment(adjustment, scenario) ==
    IF scenario = "best" THEN Get(adjustment, "best_vs_normal", I(0))
    ELSE IF scenario = "worst" THEN Get(adjustment, "worst_vs_normal", I(0))
    ELSE I(0)

scenario_mult(scenario) ==
    IF scenario = "best" THEN R(11, 10)
    ELSE IF scenario = "worst" THEN R(9, 10) ELSE I(1)

\* The setup without lines 1108-1112: with no retention game selected the
\* weight and the benchmark-only switch stay as the blend settings give them.
ProjectionSetup_NoForcedBenchmark(input_data, raw_data, fits, rng) ==
    LET days == input_data.projection_days
        blending == input_data.blending
        quality_grade ==
            IF input_data.quality_score \in {<<>>, <<"">>} THEN "B"
            ELSE input_data.quality_score[1]
        bm_type ==
            IF input_data.bm_type \in {<<>>, <<"">>} THEN "Midcore"
            ELSE input_data.bm_type[1]
        bm_modifier == Get(tables.BM_TYPE_MODIFIERS, bm_type, [pr_mod |-> I(1), arppu_mod |-> I(1)])
        regions == IF input_data.regions = <<>> THEN <<"global">> ELSE input_data.regions
        genre == Get(blending, "genre", "MMORPG")
        platforms == Get(blending, "platforms", <<"PC">>)
        looked_up == get_benchmark_data(genre, platforms)
        benchmark == [looked_up EXCEPT !.pr = RMul(@, bm_modifier.pr_mod),
                                       !.arppu = RMul(@, bm_modifier.arppu_mod)]
        coefficients ==
            calculate_retention_coefficients(input_data.retention.selected_games,
                                             raw_data, fits.internal)
    IN  [days |-> days,
         base_weight |-> Get(blending, "weight", R(7, 10)),
         genre |-> genre,
         platforms |-> platforms,
         use_benchmark_only |-> Get(blending, "benchmark_only", FALSE),
         use_time_decay |-> Get(blending, "time_decay", TRUE),
         quality_grade |-> quality_grade,
         quality_multiplier |-> Get(tables.QUALITY_SCORES, quality_grade, I(1)),
         bm_type |-> bm_type,
         bm_modifier |-> bm_modifier,
         regions |-> regions,
         seasonality_factors |->
             calculate_seasonality(regions, input_data.launch_date, days, rng),
         benchmark |-> benchmark,
         benchmark_ret_curve |->
             generate_benchmark_retention_curve(benchmark, days, fits.benchmark),
         a |-> coefficients.a,
         b |-> coefficients.b,
         pr_pattern |-> calculate_pr_pattern(input_data.revenue.selected_games_pr, raw_data),
         arppu_pattern |->
             calculate_arppu_pattern(input_data.revenue.selected_games_arppu, raw_data)]

\* Lines 1091-1123: what the handler computes once, before the scenario loop.
ProjectionSetup(input_data, raw_data, fits, rng) ==
    LET days == input_data.projection_days
        blending == input_data.blending
        quality_grade ==
            IF input_data.quality_score \in {<<>>, <<"">>} THEN "B"
            ELSE input_data.quality_score[1]
        bm_type ==
            IF input_data.bm_type \in {<<>>, <<"">>} THEN "Midcore"
            ELSE input_data.bm_type[1]
        bm_modifier == Get(tables.BM_TYPE_MODIFIERS, bm_type, [pr_mod |-> I(1), arppu_mod |-> I(1)])
        regions == IF input_data.regions = <<>> THEN <<"global">> ELSE input_data.regions
        has_sample_games == Len(input_data.retention.selected_games) > 0
        genre == Get(blending, "genre", "MMORPG")
        platforms == Get(blending, "platforms", <<"PC">>)
        looked_up == get_benchmark_data(genre, platforms)
        benchmark == [looked_up EXCEPT !.pr = RMul(@, bm_modifier.pr_mod),
                                       !.arppu = RMul(@, bm_modifier.arppu_mod)]
        coefficients ==
            calculate_retention_coefficients(input_data.retention.selected_games,
                                             raw_data, fits.internal)
    IN  [days |-> days,
         base_weight |-> IF has_sample_games THEN Get(blending, "weight", R(7, 10)) ELSE I(0),
         genre |-> genre,
         platforms |-> platforms,
         use_benchmark_only |->
             IF has_sample_games THEN Get(blending, "benchmark_only", FALSE) ELSE TRUE,
         use_time_decay |-> Get(blending, "time_decay", TRUE),
         quality_grade |-> quality_grade,
         quality_multiplier |-> Get(tables.QUALITY_SCORES, quality_grade, I(1)),
         bm_type |-> bm_type,
         bm_modifier |-> bm_modifier,
         regions |-> regions,
         seasonality_factors |->
             calculate_seasonality(regions, input_data.launch_date, days, rng),
         benchmark |-> benchmark,
         benchmark_ret_curve |->
             generate_benchmark_retention_curve(benchmark, days, fits.benchmark),
         a |-> coefficients.a,
         b |-> coefficients.b,
         pr_pattern |-> calculate_pr_pattern(input_data.revenue.selected_games_pr, raw_data),
         arppu_pattern |->
             calculate_arppu_pattern(input_data.revenue.selected_games_arppu, raw_data)]

\* Lines 1131-1147: the retention series of a scenario in the three modes.
ScenarioRetention(setup, target_d1) ==
    LET internal_ret_curve == generate_retention_curve(setup.a, setup.b, target_d1, setup.days)
        benchmark_scale ==
            IF RLt(I(0), setup.benchmark.d1) THEN RDiv(target_d1, setup.benchmark.d1) ELSE I(1)
        curve == setup.benchmark_ret_curve
        scaled_benchmark_curve ==
            List([i \in 1 .. Len(curve) |->
                ToMilli(RMin(RMul(FromMilli(curve[i]), benchmark_scale), I(1)))])
    IN  IF setup.use_time_decay /\ ~setup.use_benchmark_only
        THEN calculate_time_decay_blended_retention(
                 internal_ret_curve, scaled_benchmark_curve, setup.days,
                 setup.quality_multiplier)
        ELSE IF ~setup.use_benchmark_only
        THEN calculate_blended_retention(internal_ret_curve, scaled_benchmark_curve,
                                         setup.base_weight)
        ELSE List([i \in 1 .. Len(curve) |->
                 ToMilli(RMin(RMul(RMul(FromMilli(curve[i]), benchmark_scale),
                                   setup.quality_multiplier), I(1)))])

\* Lines 1149-1201: the NRU series of a scenario before seasonality, from
\* generate_nru_series_v85 when a UA budget is set and from the legacy
\* generate_nru_series otherwise.
NruOutcome(v85) ==
    IF v85.raised
    THEN [raised |-> TRUE]
    ELSE [raised |-> FALSE, v85 |-> TRUE, nru_series |-> v85.nru_series,
          paid_nru |-> v85.total_paid_nru,
          organic_nru |-> v85.organic_nru_total,
          organic_boost |-> v85.organic_boost,
          nru_meta |-> v85.meta_info]

ScenarioNru(input_data, setup, scenario) ==
    LET nru == input_data.nru
        d1_nru == nru.d1_nru[scenario]
        nru_adj == ScenarioAdjustment(nru.adjustment, scenario)
        adjusted_d1_nru == RInt(RMul(I(d1_nru), RAdd(I(1), nru_adj)))
        ua_budget == OrInt(nru.ua_budget, 0)
        brand_budget == OrInt(nru.brand_budget, 0)
        target_cpa == OrInt(nru.target_cpa, 2000)
        base_organic_ratio == OrFloat(nru.base_organic_ratio, R(2, 10))
    IN  IF ua_budget > 0
        THEN LET adj_ua == RInt(RMul(I(ua_budget), scenario_mult(scenario)))
                 adj_brand == RInt(RMul(I(brand_budget), scenario_mult(scenario)))
             IN  NruOutcome(generate_nru_series_v85(
                     adj_ua, adj_brand, target_cpa, base_organic_ratio, setup.days, 30,
                     OrFloat(nru.pre_marketing_ratio, I(0)),
                     OrFloat(nru.wishlist_conversion_rate, R(15, 100)),
                     NotNoneOrTrue(nru.cpa_saturation_enabled),
                     NotNoneOrTrue(nru.brand_time_lag_enabled)))
        ELSE [raised |-> FALSE, v85 |-> FALSE,
              nru_series |-> generate_nru_series(adjusted_d1_nru, setup.days, 30, R(1, 10))]

\* Lines 1209-1239: the payment-rate and ARPPU series of a scenario.
ScenarioPr(input_data, setup, scenario) ==
    LET pr_adj == ScenarioAdjustment(input_data.revenue.pr_adjustment, scenario)
        adjusted_benchmark_pr == RMul(setup.benchmark.pr, setup.quality_multiplier)
        pr_series ==
            IF ~setup.use_benchmark_only
            THEN calculate_blended_pr(setup.pr_pattern, adjusted_benchmark_pr,
                                      setup.base_weight, setup.days)
            ELSE List([i \in 1 .. Max(setup.days, 0) |-> ToMilli(adjusted_benchmark_pr)])
    IN  List([i \in 1 .. Len(pr_series) |->
            ToMilli(RMul(FromMilli(pr_series[i]), RAdd(I(1), pr_adj)))])

ScenarioArppu(input_data, setup, scenario) ==
    LET arppu_adj == ScenarioAdjustment(input_data.revenue.arppu_adjustment, scenario)
        adjusted_benchmark_arppu == RMul(setup.benchmark.arppu, setup.quality_multiplier)
        blended ==
            IF ~setup.use_benchmark_only
            THEN calculate_blended_arppu(setup.arppu_pattern, adjusted_benchmark_arppu,
                                         setup.base_weight, setup.days)
            ELSE List([i \in 1 .. Max(setup.days, 0) |-> RInt(adjusted_benchmark_arppu)])
        adjusted == List([i \in 1 .. Len(blended) |->
                        RInt(RMul(I(blended[i]), RAdd(I(1), arppu_adj)))])
        sf == setup.seasonality_factors
    IN  List([i \in 1 .. ZipLen(adjusted, sf) |-> MulMilli(adjusted[i], sf[i])])

\* Lines 1203-1204: seasonality applied to the NRU series.
SeasonalNru(nru_series, seasonality_factors) ==
    List([i \in 1 .. ZipLen(nru_series, seasonality_factors) |->
        MulMilli(nru_series[i], seasonality_factors[i])])

\* Lines 1244-1277: the entry of a scenario in the results.
ScenarioRecord(input_data, setup, scenario, s, dau_series, revenue_series) ==
    [raised |-> FALSE,
     v85 |-> s.generated.v85,
     generated |-> s.generated,
     retention |-> [coefficients |-> [a |-> setup.a, b |-> setup.b],
                    target_d1 |-> s.target_d1,
                    curve |-> SubSeq(s.ret_curve, 1, Min(90, Len(s.ret_curve)))],
     nru |-> [d1_nru |-> input_data.nru.d1_nru[scenario],
              series |-> SubSeq(s.nru_series, 1, Min(90, Len(s.nru_series))),
              total |-> SumSeq(s.nru_series),
              paid |-> IF s.generated.v85 THEN s.generated.paid_nru
                       ELSE SumSeq(s.nru_series),
              organic |-> IF s.generated.v85 THEN s.generated.organic_nru ELSE 0],
     dau |-> [series |-> SubSeq(dau_series, 1, Min(90, Len(dau_series))),
              peak |-> MaxSeq(dau_series),
              average |-> Trunc(SumSeq(dau_series), Len(dau_series))],
     revenue |-> [pr_series |-> SubSeq(s.pr_series, 1, Min(90, Len(s.pr_series))),
                  arppu_series |->
                      SubSeq(s.arppu_series, 1, Min(90, Len(s.arppu_series))),
                  daily_revenue |->
                      SubSeq(revenue_series, 1, Min(90, Len(revenue_series))),
                  total_gross |-> SumSeq(revenue_series),
                  average_daily |-> R(SumSeq(revenue_series), Len(revenue_series))],
     full_data |-> [nru |-> s.nru_series, dau |-> dau_series,
                    revenue |-> revenue_series, retention |-> s.ret_curve,
                    pr |-> s.pr_series, arppu |-> s.arppu_series]]

\* Lines 1242-1259: the revenue series; max() of an empty DAU series raises
\* ValueError.
ScenarioRevenue(input_data, setup, scenario, s, dau_series) ==
    IF dau_series = <<>>
    THEN [raised |-> TRUE]
    ELSE ScenarioRecord(input_data, setup, scenario, s, dau_series,
                        calculate_revenue(dau_series, s.pr_series, s.arppu_series))

\* Line 1207: the DAU series of the seasonal NRU series.
ScenarioSeasonal(input_data, setup, scenario, s) ==
    ScenarioRevenue(input_data, setup, scenario, s,
                    calculate_dau_matrix(s.nru_series, s.ret_curve, setup.days))

\* Lines 1203-1239: the seasonal NRU, payment-rate and ARPPU series.
ScenarioSeries(input_data, setup, scenario, target_d1, ret_curve, generated) ==
    IF generated.raised
    THEN [raised |-> TRUE]
    ELSE ScenarioSeasonal(input_data, setup, scenario,
             [target_d1 |-> target_d1, ret_curve |-> ret_curve, generated |-> generated,
              nru_series |-> SeasonalNru(generated.nru_series, setup.seasonality_factors),
              pr_series |-> ScenarioPr(input_data, setup, scenario),
              arppu_series |-> ScenarioArppu(input_data, setup, scenario)])

\* The turn of a loop that keeps the retention target of the first scenario.
ScenarioResult_CarriedTarget(input_data, setup, scenario) ==
    ScenarioSeries(input_data, setup, scenario,
                   input_data.retention.target_d1_retention[scenario],
                   ScenarioRetention(setup,
                                     input_data.retention.target_d1_retention[Scenarios[1]]),
                   ScenarioNru(input_data, setup, scenario))

\* Lines 1125-1277: one turn of the scenario loop.
ScenarioResult(input_data, setup, scenario) ==
    ScenarioSeries(input_data, setup, scenario,
                   input_data.retention.target_d1_retention[scenario],
                   ScenarioRetention(setup,
                                     input_data.retention.target_d1_retention[scenario]),
                   ScenarioNru(input_data, setup, scenario))

\* cac_paid with the divisor floored at 1.
cac_paid_FlooredDivisor(ua_budget, paid_nru_count) ==
    RoundHalfEven(ua_budget, Max(paid_nru_count, 1))

\* Lines 1312 and 1326: round(ua_budget / paid_nru_count if paid_nru_count > 0 else 0, 0)
cac_paid(ua_budget, paid_nru_count) ==
    IF paid_nru_count > 0 THEN RoundHalfEven(ua_budget, paid_nru_count) ELSE 0

\* Lines 1291-1328: the summary of a scenario.
ScenarioSummary(result, basic, ua_budget, total_marketing_budget) ==
    LET gross == result.revenue.total_gross
        market_fee == Get(basic, "market_fee_ratio", R(3, 10))
        vat == Get(basic, "vat_ratio", R(1, 10))
        infra == Get(basic, "infrastructure_cost_ratio", R(3, 100))
        net == RMul(I(gross), RSub(RSub(RSub(I(1), market_fee), vat), infra))
        paid_roas ==
            IF ua_budget > 0 THEN R(RoundScaled(gross, ua_budget, 1000), 10) ELSE I(0)
        blended_roas ==
            IF total_marketing_budget > 0
            THEN R(RoundScaled(gross, total_marketing_budget, 1000), 10)
            ELSE I(0)
        total_nru == result.nru.total
        paid_nru_count == result.nru.paid
        ltv == IF total_nru > 0 THEN RoundHalfEven(gross, total_nru) ELSE 0
        cac_blended ==
            IF total_nru > 0 THEN RoundHalfEven(total_marketing_budget, total_nru) ELSE 0
    IN  [gross_revenue |-> gross,
         net_revenue |-> net,
         total_nru |-> total_nru,
         peak_dau |-> result.dau.peak,
         average_dau |-> result.dau.average,
         average_daily_revenue |-> result.revenue.average_daily,
         paid_roas |-> paid_roas,
         blended_roas |-> blended_roas,
         ltv |-> ltv,
         cac_paid |-> cac_paid(ua_budget, paid_nru_count),
         cac_blended |-> cac_blended]

\* Lines 1184-1197 and 1349: the analysis kept from the normal scenario.
NruAnalysis(normal) ==
    IF normal.v85
    THEN <<[paid_nru |-> normal.generated.paid_nru,
            organic_nru |-> normal.generated.organic_nru,
            organic_boost_factor |-> Round2(normal.generated.organic_boost),
            total_nru |-> normal.generated.paid_nru + normal.generated.organic_nru,
            effective_cpa |-> normal.generated.nru_meta.effective_cpa,
            pre_launch_users |-> normal.generated.nru_meta.pre_launch_users,
            wishlist_users |-> normal.generated.nru_meta.wishlist_users,
            d1_burst_users |-> normal.generated.nru_meta.d1_burst_users]>>
    ELSE <<>>

\* round(part / total_marketing_budget * 100, 1) if total_marketing_budget > 0 else 0
BudgetRatio(part, total_marketing_budget) ==
    IF total_marketing_budget > 0
    THEN R(RoundScaled(part, total_marketing_budget, 1000), 10)
    ELSE I(0)

\* Lines 1279-1382: the response built after the scenario loop.
ProjectionResponse(input_data, config, setup, results) ==
    IF \E scenario \in ScenarioNames : results[scenario].raised
    THEN [status |-> "error"]
    ELSE
    LET ua_budget == OrInt(input_data.nru.ua_budget, 0)
        brand_budget == OrInt(input_data.nru.brand_budget, 0)
        basic == IF input_data.basic_settings = <<>> THEN config.basic_settings
                 ELSE input_data.basic_settings
        sustaining_monthly == Get(basic, "sustaining_mkt_budget_monthly", 0)
        total_sustaining == sustaining_monthly * 12
        total_marketing_budget == ua_budget + brand_budget + total_sustaining
    IN  [status |-> "success",
         input |-> [launch_date |-> input_data.launch_date,
                    projection_days |-> setup.days,
                    retention_games |-> input_data.retention.selected_games,
                    pr_games |-> input_data.revenue.selected_games_pr,
                    arppu_games |-> input_data.revenue.selected_games_arppu],
         blending |-> [weight_internal |-> setup.base_weight,
                       weight_benchmark |-> RSub(I(1), setup.base_weight),
                       time_decay |-> setup.use_time_decay,
                       genre |-> setup.genre,
                       platforms |-> setup.platforms,
                       benchmark_only |-> setup.use_benchmark_only,
                       benchmark_data |-> setup.benchmark],
         v7_settings |-> [quality_score |-> setup.quality_grade,
                          quality_multiplier |-> setup.quality_multiplier,
                          bm_type |-> setup.bm_type,
                          bm_modifier |-> setup.bm_modifier,
                          regions |-> setup.regions,
                          seasonality_applied |-> TRUE],
         v85_marketing |->
             [ua_budget |-> ua_budget,
              brand_budget |-> brand_budget,
              sustaining_budget_annual |-> total_sustaining,
              total_marketing_budget |-> total_marketing_budget,
              organic_boost_factor |->
                  IF ua_budget > 0
                  THEN Round2(calculate_organic_boost(brand_budget, ua_budget))
                  ELSE I(1),
              budget_breakdown |->
                  [ua_ratio |-> BudgetRatio(ua_budget, total_marketing_budget),
                   brand_ratio |-> BudgetRatio(brand_budget, total_marketing_budget),
                   sustaining_ratio |->
                       BudgetRatio(total_sustaining, total_marketing_budget)],
              nru_analysis |-> NruAnalysis(results["normal"])],
         summary |-> [scenario \in ScenarioNames |->
                         ScenarioSummary(results[scenario], basic, ua_budget,
                                         total_marketing_budget)],
         results |-> [scenario \in ScenarioNames |->
                         [field \in {"retention", "nru", "dau", "revenue", "full_data"} |->
                             results[scenario][field]]]]

\* Lines 1125-1277: the scenario loop.
ProjectionLoop(input_data, config, setup) ==
    ProjectionResponse(input_data, config, setup,
                       [scenario \in ScenarioNames |->
                           ScenarioResult(input_data, setup, scenario)])

calculate_projection(input_data, raw_data, config, fits, rng) ==
    ProjectionLoop(input_data, config, ProjectionSetup(input_data, raw_data, fits, rng))

----------------------------------------------------------------------------
(***************************************************************************)
(* The requests of the check of calculate_projection.  A request is drawn  *)
(* from the horizons, the blend settings, the retention selections, the    *)
(* day-1 targets, the budgets and three settings of the remaining fields;  *)
(* the store, the configuration file, the outcomes of the two curve fits   *)
(* and the random stream come with the setting.                            *)
(***************************************************************************)
ShortHorizon == 2     \* a horizon inside the 30-day launch window
MidHorizon == 31      \* a horizon that leaves the launch window
LongHorizon == 366    \* a horizon past the 365 entries of the patterns

ProjectionDays == {0, 1, ShortHorizon, MidHorizon, LongHorizon}

Config ==
    [basic_settings |->
        [sustaining_mkt_budget_monthly |-> 1000, market_fee_ratio |-> R(3, 10),
         vat_ratio |-> R(1, 10), infrastructure_cost_ratio |-> R(3, 100)]]

\* None, a fixed weight, benchmark-only, and a fixed weight on another benchmark.
BlendSettings ==
    {<<>>,
     [time_decay |-> FALSE, weight |-> R(1, 2)],
     [benchmark_only |-> TRUE],
     [genre |-> "Casual", platforms |-> <<"Mobile", "PC", "Web">>, weight |-> R(3, 10)]}

RetentionSelections == {<<>>, <<"GameA">>, <<"GameB", "GameA", "Missing">>}

TargetSettings ==
    {[best |-> R(45, 100), normal |-> R(40, 100), worst |-> R(35, 100)],
     [best |-> R(3, 2), normal |-> I(0), worst |-> R(-1, 2)]}

\* ua_budget, brand_budget: unset, zero, a campaign, a budget below one CPA,
\* a brand refund that cancels the UA budget, a negative UA budget.
BudgetSettings ==
    {[ua_budget |-> <<>>, brand_budget |-> <<>>],
     [ua_budget |-> <<0>>, brand_budget |-> <<0>>],
     [ua_budget |-> <<90000>>, brand_budget |-> <<45000>>],
     [ua_budget |-> <<1000>>, brand_budget |-> <<0>>],
     [ua_budget |-> <<1000>>, brand_budget |-> <<-1000>>],
     [ua_budget |-> <<-5000>>, brand_budget |-> <<300>>]}

OtherSettings ==
    {[launch_date |-> [parsed |-> FALSE],
      quality_score |-> <<>>, bm_type |-> <<>>, regions |-> <<>>,
      d1_nru |-> [best |-> 0, normal |-> 0, worst |-> 0],
      nru_adjustment |-> [best_vs_normal |-> R(1, 10), worst_vs_normal |-> R(-1, 10)],
      target_cpa |-> <<2000>>, base_organic_ratio |-> <<R(2, 10)>>,
      pre_marketing_ratio |-> <<I(0)>>, wishlist_conversion_rate |-> <<R(15, 100)>>,
      cpa_saturation_enabled |-> <<TRUE>>, brand_time_lag_enabled |-> <<TRUE>>,
      selected_games_pr |-> <<>>, selected_games_arppu |-> <<>>,
      pr_adjustment |-> [best_vs_normal |-> R(5, 100), worst_vs_normal |-> R(-5, 100)],
      arppu_adjustment |-> [best_vs_normal |-> R(5, 100), worst_vs_normal |-> R(-5, 100)],
      basic_settings |-> <<>>,
      fits |-> [internal |-> [converged |-> TRUE, a |-> R(2, 5), b |-> R(-1, 2)],
                benchmark |-> [converged |-> TRUE, a |-> R(33, 100), b |-> R(-7, 20)]],
      rng |-> <<0>>],
     [launch_date |-> [parsed |-> TRUE, month |-> 12, day |-> 23, weekday |-> 2],
      quality_score |-> <<"S">>, bm_type |-> <<"Hardcore">>,
      regions |-> <<"Korea", "japan", "mars", "global">>,
      d1_nru |-> [best |-> 1200, normal |-> 1000, worst |-> 800],
      nru_adjustment |-> [best_vs_normal |-> I(2)],
      target_cpa |-> <<>>, base_organic_ratio |-> <<I(0)>>,
      pre_marketing_ratio |-> <<R(3, 10)>>, wishlist_conversion_rate |-> <<>>,
      cpa_saturation_enabled |-> <<>>, brand_time_lag_enabled |-> <<FALSE>>,
      selected_games_pr |-> <<"GameA", "GameB">>, selected_games_arppu |-> <<"GameA">>,
      pr_adjustment |-> [best_vs_normal |-> I(1), worst_vs_normal |-> I(-2)],
      arppu_adjustment |-> [best_vs_normal |-> I(1), worst_vs_normal |-> I(-2)],
      basic_settings |-> [sustaining_mkt_budget_monthly |-> 0, market_fee_ratio |-> I(0),
                          vat_ratio |-> I(0), infrastructure_cost_ratio |-> I(0)],
      fits |-> [internal |-> [converged |-> FALSE], benchmark |-> [converged |-> FALSE]],
      rng |-> <<137, 842, 500>>],
     [launch_date |-> [parsed |-> TRUE, month |-> 1, day |-> 31, weekday |-> 5],
      quality_score |-> <<"D">>, bm_type |-> <<"Subscription">>, regions |-> <<"na">>,
      d1_nru |-> [best |-> 40, normal |-> 30, worst |-> 20],
      nru_adjustment |-> [best_vs_normal |-> R(1, 10), worst_vs_normal |-> I(-1)],
      target_cpa |-> <<7>>, base_organic_ratio |-> <<R(1, 2)>>,
      pre_marketing_ratio |-> <<>>, wishlist_conversion_rate |-> <<I(0)>>,
      cpa_saturation_enabled |-> <<FALSE>>, brand_time_lag_enabled |-> <<>>,
      selected_games_pr |-> <<"Missing">>, selected_games_arppu |-> <<"Missing", "GameA">>,
      pr_adjustment |-> <<>>,
      arppu_adjustment |-> [worst_vs_normal |-> R(-1, 2)],
      basic_settings |-> [market_fee_ratio |-> R(1, 2)],
      fits |-> [internal |-> [converged |-> TRUE, a |-> I(2), b |-> I(0)],
                benchmark |-> [converged |-> TRUE, a |-> I(2), b |-> I(0)]],
      rng |-> <<999>>]}

ProjectionInput(days, blending, selected_games, targets, budget, other) ==
    [launch_date |-> other.launch_date,
     projection_days |-> days,
     retention |-> [selected_games |-> selected_games, target_d1_retention |-> targets],
     nru |-> [d1_nru |-> other.d1_nru,
              adjustment |-> other.nru_adjustment,
              ua_budget |-> budget.ua_budget,
              brand_budget |-> budget.brand_budget,
              target_cpa |-> other.target_cpa,
              base_organic_ratio |-> other.base_organic_ratio,
              pre_marketing_ratio |-> other.pre_marketing_ratio,
              wishlist_conversion_rate |-> other.wishlist_conversion_rate,
              cpa_saturation_enabled |-> other.cpa_saturation_enabled,
              brand_time_lag_enabled |-> other.brand_time_lag_enabled],
     revenue |-> [selected_games_pr |-> other.selected_games_pr,
                  selected_games_arppu |-> other.selected_games_arppu,
                  pr_adjustment |-> other.pr_adjustment,
                  arppu_adjustment |-> other.arppu_adjustment],
     basic_settings |-> other.basic_settings,
     blending |-> blending,
     quality_score |-> other.quality_score,
     bm_type |-> other.bm_type,
     regions |-> other.regions]

\* The settings a horizon is taken with: all of them for the short horizon,
\* and fewer of them as the horizon grows or degenerates.
HorizonChoice(days, blending, selected_games, targets, budget, other) ==
    IF days = ShortHorizon THEN TRUE
    ELSE IF days > MidHorizon
    THEN /\ selected_games = <<"GameA">>
         /\ targets.worst[1] > 0
         /\ other.rng = <<137, 842, 500>>
         /\ \/ blending = <<>> /\ budget.ua_budget = <<90000>>
            \/ "time_decay" \in DOMAIN blending /\ budget.ua_budget = <<0>>
    ELSE IF days = MidHorizon
    THEN Len(selected_games) <= 1 /\ other.rng # <<999>>
    ELSE IF days = 0
    THEN blending = <<>> /\ selected_games = <<>> /\ targets.worst[1] > 0
    ELSE Len(selected_games) <= 1 /\ targets.worst[1] > 0

ProjectionChoices ==
    {c \in ProjectionDays \X BlendSettings \X RetentionSelections \X TargetSettings
             \X BudgetSettings \X OtherSettings :
        HorizonChoice(c[1], c[2], c[3], c[4], c[5], c[6])}

ProjectionArgs ==
    {[input_data |-> ProjectionInput(c[1], c[2], c[3], c[4], c[5], c[6]),
      raw_data |-> RawData, config |-> Config, fits |-> c[6].fits, rng |-> c[6].rng] :
        c \in ProjectionChoices}

InitProjection ==
    /\ ProcessInit
    /\ fn = "idle"
    /\ args \in ProjectionArgs
    /\ ret = NoValue

CallProjection ==
    /\ fn = "idle"
    /\ fn' = "calculate_projection"
    /\ ret' = calculate_projection(args.input_data, args.raw_data, args.config,
                                   args.fits, args.rng)
    /\ UNCHANGED <<args, process>>

NextProjection == CallProjection

SpecProjection == InitProjection /\ [][NextProjection]_vars

ProjectionDone == fn = "calculate_projection"

ProjectionOk == ProjectionDone /\ ret.status = "success"

----------------------------------------------------------------------------
(***************************************************************************)
(* The claims on calculate_projection.                                     *)
(***************************************************************************)

\* create_insight_prompt and generate_mock_ai_report (main.py 850, 1390)
\* read the break-even day of a summary as summary.get('bep_day', -1).
bep_day(summary) == IF "bep_day" \in DOMAIN summary THEN summary.bep_day ELSE -1

\* The code computes no cost and no profit.  The profit of a day is the one
\* of the specification: the revenue of the day, less the monthly overhead
\* pro-rated to a day, the marketing budget pro-rated over the 30-day
\* launch window, and the cost ratios applied to the revenue of the day.
C6_DailyProfit(scenario, day) ==
    LET input_data == args.input_data
        basic == IF input_data.basic_settings = <<>> THEN args.config.basic_settings
                 ELSE input_data.basic_settings
        revenue == ret.results[scenario].full_data.revenue[day]
        overhead == Trunc(Get(basic, "sustaining_mkt_budget_monthly", 0), 30)
        marketing ==
            IF day <= 30
            THEN Trunc(ret.v85_marketing.ua_budget + ret.v85_marketing.brand_budget, 30)
            ELSE 0
        ratio == RAdd(RAdd(Get(basic, "market_fee_ratio", R(3, 10)),
                           Get(basic, "vat_ratio", R(1, 10))),
                      Get(basic, "infrastructure_cost_ratio", R(3, 100)))
    IN  revenue - overhead - marketing - RInt(RMul(I(revenue), ratio))

C6_CumulativeProfit(scenario) ==
    LET days == Len(ret.results[scenario].full_data.revenue)
        profit == List([day \in 1 .. days |-> C6_DailyProfit(scenario, day)])
    IN  List([day \in 1 .. days |-> SumRange(profit, 1, day)])

\* The 1-based index of the first non-negative entry, or -1.
C6_FirstBreakEven(cumulative) ==
    LET reached == {day \in 1 .. Len(cumulative) : cumulative[day] >= 0}
    IN  IF reached = {} THEN -1
        ELSE CHOOSE day \in reached : \A other \in reached : day <= other

(***************************************************************************)
(* C6: for every scenario, the summary returned by the projection carries  *)
(* a break-even day: the 1-based index of the first day on which the       *)
(* cumulative profit of the scenario is >= 0, and -1 when it never is      *)
(* within the horizon.                                                     *)
(***************************************************************************)
C6_BreakEvenDay ==
    ProjectionOk =>
        \A scenario \in ScenarioNames :
            bep_day(ret.summary[scenario])
                = C6_FirstBreakEven(C6_CumulativeProfit(scenario))

SummaryFields ==
    {"gross_revenue", "net_revenue", "total_nru", "peak_dau", "average_dau",
     "average_daily_revenue", "paid_roas", "blended_roas", "ltv", "cac_paid",
     "cac_blended"}

SeriesFields == {"nru", "dau", "revenue", "retention", "pr", "arppu"}

(***************************************************************************)
(* C7: for every request, zero or negative budgets, empty selections, a    *)
(* single-day horizon and extreme adjustments included,                    *)
(* calculate_projection raises no exception and returns the three          *)
(* scenarios with every series and summary field, none of them NaN or      *)
(* infinite.                                                               *)
(***************************************************************************)
C7_NoException ==
    ProjectionDone =>
        /\ ret.status = "success"
        /\ DOMAIN ret.results = ScenarioNames
        /\ DOMAIN ret.summary = ScenarioNames
        /\ \A scenario \in ScenarioNames :
              /\ SeriesFields \subseteq DOMAIN ret.results[scenario].full_data
              /\ SummaryFields \subseteq DOMAIN ret.summary[scenario]
              /\ IsFinite(ret.summary[scenario].net_revenue)
              /\ IsFinite(ret.summary[scenario].average_daily_revenue)
              /\ IsFinite(ret.summary[scenario].paid_roas)
              /\ IsFinite(ret.summary[scenario].blended_roas)
        /\ IsFinite(ret.v85_marketing.organic_boost_factor)

C9_RetentionInUnitInterval ==
    ProjectionOk =>
        \A scenario \in ScenarioNames :
            \A i \in 1 .. Len(ret.results[scenario].full_data.retention) :
                /\ ret.results[scenario].full_data.retention[i] >= 0
                /\ ret.results[scenario].full_data.retention[i] <= 1000

(***************************************************************************)
(* C10: for every request with projection_days = N >= 1, in every          *)
(* scenario and every blend and budget mode, each full daily series of the *)
(* result (nru, dau, revenue, retention, pr, arppu) has length exactly N,  *)
(* also when N is below the 30-day launch window or above 365.             *)
(***************************************************************************)
C10_SeriesLength ==
    ProjectionOk /\ args.input_data.projection_days >= 1 =>
        \A scenario \in ScenarioNames : \A field \in SeriesFields :
            Len(ret.results[scenario].full_data[field]) = args.input_data.projection_days

\* A horizon past the 365 entries of the patterns, blended with the store.
C10_Witness ==
    /\ ProjectionOk
    /\ args.input_data.projection_days > PatternDays
    /\ ~ret.blending.benchmark_only
    /\ Len(ret.results["worst"].full_data.pr) = args.input_data.projection_days

(***************************************************************************)
(* C13: in every blend mode of the projection (time-decay, fixed weight,   *)
(* benchmark-only) and for each blended metric (retention, payment rate,   *)
(* ARPPU), the quality multiplier q of the request's grade scales the      *)
(* benchmark term and never the internal term: blended = internal * w +    *)
(* (benchmark * q) * (1 - w) before clamping.                              *)
(***************************************************************************)

\* The internal weight of a day: 0 in benchmark-only mode, the time-decay
\* weight for the retention of the time-decay mode, the fixed weight otherwise.
C13_Weight(setup, day, time_decay) ==
    IF setup.use_benchmark_only THEN I(0)
    ELSE IF time_decay THEN calculate_time_decay_weight(day + 1, setup.days)
    ELSE setup.base_weight

C13_Blend(internal, benchmark, q, w) ==
    RAdd(RMul(internal, w), RMul(RMul(benchmark, q), RSub(I(1), w)))

C13_Retention(setup, target_d1, day) ==
    LET internal == FromMilli(AtOrLast(
                        generate_retention_curve(setup.a, setup.b, target_d1, setup.days), day))
        scale == IF RLt(I(0), setup.benchmark.d1)
                 THEN RDiv(target_d1, setup.benchmark.d1) ELSE I(1)
        scaled == RMul(FromMilli(At(setup.benchmark_ret_curve, day)), scale)
        benchmark == IF setup.use_benchmark_only THEN scaled
                     ELSE FromMilli(ToMilli(RMin(scaled, I(1))))
        blended == C13_Blend(internal, benchmark, setup.quality_multiplier,
                             C13_Weight(setup, day, setup.use_time_decay))
    IN  IF setup.use_benchmark_only THEN ToMilli(RMin(blended, I(1)))
        ELSE ToMilli(RMax(RMin(blended, I(1)), R(1, 1000)))

C13_Pr(setup, pr_adj, day) ==
    LET blended == C13_Blend(FromMilli(AtOrLast(setup.pr_pattern, day)), setup.benchmark.pr,
                             setup.quality_multiplier, C13_Weight(setup, day, FALSE))
        clamped == IF setup.use_benchmark_only THEN ToMilli(blended)
                   ELSE ToMilli(RMax(RMin(blended, I(1)), R(1, 1000)))
    IN  ToMilli(RMul(FromMilli(clamped), RAdd(I(1), pr_adj)))

C13_Arppu(setup, arppu_adj, day) ==
    LET blended == C13_Blend(I(AtOrLast(setup.arppu_pattern, day)), setup.benchmark.arppu,
                             setup.quality_multiplier, C13_Weight(setup, day, FALSE))
        clamped == IF setup.use_benchmark_only THEN RInt(blended)
                   ELSE RInt(RMax(blended, I(1000)))
    IN  MulMilli(RInt(RMul(I(clamped), RAdd(I(1), arppu_adj))),
                 At(setup.seasonality_factors, day))

C13_Expected(input_data, setup, scenario) ==
    [retention |-> List([i \in 1 .. setup.days |->
                       C13_Retention(setup,
                                     input_data.retention.target_d1_retention[scenario],
                                     i - 1)]),
     pr |-> List([i \in 1 .. setup.days |->
                C13_Pr(setup, ScenarioAdjustment(input_data.revenue.pr_adjustment, scenario),
                       i - 1)]),
     arppu |-> List([i \in 1 .. setup.days |->
                   C13_Arppu(setup,
                             ScenarioAdjustment(input_data.revenue.arppu_adjustment, scenario),
                             i - 1)])]

C13_Agrees(full_data, expected) ==
    /\ full_data.retention = expected.retention
    /\ full_data.pr = expected.pr
    /\ full_data.arppu = expected.arppu

C13_AllAgree(results, input_data, setup) ==
    \A scenario \in ScenarioNames :
        C13_Agrees(results[scenario].full_data, C13_Expected(input_data, setup, scenario))

C13_QualityScalesBenchmarkOnly ==
    ProjectionOk
        => C13_AllAgree(ret.results, args.input_data,
                        ProjectionSetup(args.input_data, args.raw_data, args.fits, args.rng))

(***************************************************************************)
(* C15: for every request with ua_budget > 0, each scenario's organic user *)
(* total equals the truncation of paid user total * the request's          *)
(* base_organic_ratio * boost, for every configured base_organic_ratio     *)
(* including 0, which yields 0 organic users.                              *)
(***************************************************************************)

\* The ratio the request configures: 0.2 when the field is absent.
C15_ConfiguredRatio(nru) ==
    IF nru.base_organic_ratio = <<>> THEN R(2, 10) ELSE nru.base_organic_ratio[1]

\* The boost of the budgets of a scenario.
C15_Boost(nru, scenario) ==
    calculate_organic_boost(RInt(RMul(I(OrInt(nru.brand_budget, 0)), scenario_mult(scenario))),
                            RInt(RMul(I(OrInt(nru.ua_budget, 0)), scenario_mult(scenario))))

C15_OrganicTotal ==
    (ProjectionOk /\ OrInt(args.input_data.nru.ua_budget, 0) > 0)
        => \A scenario \in ScenarioNames :
               ret.results[scenario].nru.organic
                   = RInt(RMul(I(ret.results[scenario].nru.paid),
                               RMul(C15_ConfiguredRatio(args.input_data.nru),
                                    C15_Boost(args.input_data.nru, scenario))))

(***************************************************************************)
(* C17: in every scenario of every projection result, every day's NRU      *)
(* value is at least the generator's fixed minimum (5 on the budget path   *)
(* generate_nru_series_v85, 10 on the legacy path generate_nru_series), on *)
(* every day of the horizon.                                               *)
(***************************************************************************)
C17_Minimum(input_data) == IF OrInt(input_data.nru.ua_budget, 0) > 0 THEN 5 ELSE 10

C17_NruFloorInResult ==
    ProjectionOk
        => \A scenario \in ScenarioNames :
               \A i \in 1 .. Len(ret.results[scenario].full_data.nru) :
                   ret.results[scenario].full_data.nru[i] >= C17_Minimum(args.input_data)

(***************************************************************************)
(* C17 as the code has it: the minimum holds for the series the generator  *)
(* returns.  The NRU of the result is that series after seasonality, the   *)
(* truncation of value * factor (main.py 1204), and a factor below 1       *)
(* takes it below the minimum: it is at least 4 on the budget path and at  *)
(* least 8 on the legacy path, the seasonality factor being above 0.8.     *)
(***************************************************************************)
C17_DayHolds(minimum, generated, factor, nru) ==
    /\ generated >= minimum
    /\ nru = MulMilli(generated, factor)
    /\ nru >= (minimum * 4) \div 5

C17_ScenarioHolds(minimum, generated, seasonality_factors, nru_series) ==
    /\ Len(nru_series) = Len(generated)
    /\ \A i \in 1 .. Len(nru_series) :
           C17_DayHolds(minimum, generated[i], seasonality_factors[i], nru_series[i])

C17_AllHold(results, input_data, setup) ==
    \A scenario \in ScenarioNames :
        C17_ScenarioHolds(C17_Minimum(input_data),
                          ScenarioNru(input_data, setup, scenario).nru_series,
                          setup.seasonality_factors,
                          results[scenario].full_data.nru)

C17_NruFloorBeforeSeasonality ==
    ProjectionOk
        => C17_AllHold(ret.results, args.input_data,
                       ProjectionSetup(args.input_data, args.raw_data, args.fits, args.rng))

\* A result with a day that seasonality takes below the minimum of the generator.
C17_Witness ==
    /\ ProjectionOk
    /\ \E i \in 1 .. Len(ret.results["normal"].full_data.nru) :
           ret.results["normal"].full_data.nru[i]
               = (C17_Minimum(args.input_data) * 4) \div 5

----------------------------------------------------------------------------
(***************************************************************************)
(* Two requests served in turn by calculate_projection.  The handler keeps *)
(* nothing between requests: it reads the store anew (main.py 1083) and    *)
(* reseeds the random stream (main.py 111).  The second request of a pair  *)
(* is the first one with the store and the payment-rate / ARPPU selections *)
(* changed, or with one parameter of one scenario changed.                 *)
(***************************************************************************)
\* Another selection of payment-rate and ARPPU games than the request has.
Reselected(other) ==
    [other EXCEPT
        !.selected_games_pr = IF @ = <<"GameB">> THEN <<"GameA", "GameB">> ELSE <<"GameB">>,
        !.selected_games_arppu = IF @ = <<"GameA">> THEN <<"GameB", "GameA">> ELSE <<"GameA">>]

StoreVariations ==
    {[raw_data |-> AltRawData, reselect |-> FALSE],
     [raw_data |-> RawData, reselect |-> TRUE],
     [raw_data |-> AltRawData, reselect |-> TRUE]}

\* One scenario's target day-1 retention raised by 0.05, or its d1_nru by 500.
ScenarioVariations == ScenarioNames \X {"target_d1_retention", "d1_nru"}

VaryScenario(input_data, scenario, field) ==
    IF field = "target_d1_retention"
    THEN [input_data EXCEPT
             !.retention.target_d1_retention[scenario] = RAdd(@, R(5, 100))]
    ELSE [input_data EXCEPT !.nru.d1_nru[scenario] = @ + 500]

ProjectionCall(input_data, raw_data, other) ==
    [input_data |-> input_data, raw_data |-> raw_data, config |-> Config,
     fits |-> other.fits, rng |-> other.rng]

PairBudgets ==
    {[ua_budget |-> <<>>, brand_budget |-> <<>>],
     [ua_budget |-> <<90000>>, brand_budget |-> <<45000>>]}

PairTargets == [best |-> R(45, 100), normal |-> R(40, 100), worst |-> R(35, 100)]

\* Pairs without retention games that differ in the store and the selections.
StorePairs ==
    {[kind |-> "store", scenario |-> "",
      requests |->
          <<ProjectionCall(ProjectionInput(c[1], c[2], <<>>, PairTargets, c[3], c[4]),
                           RawData, c[4]),
            ProjectionCall(ProjectionInput(c[1], c[2], <<>>, PairTargets, c[3],
                                           IF c[5].reselect THEN Reselected(c[4])
                                           ELSE c[4]),
                           c[5].raw_data, c[4])>>] :
        c \in {ShortHorizon, MidHorizon} \X BlendSettings \X PairBudgets \X OtherSettings
                 \X StoreVariations}

\* Pairs that differ in one parameter of one scenario.
ScenarioPairs ==
    {[kind |-> "scenario", scenario |-> c[5][1],
      requests |->
          <<ProjectionCall(ProjectionInput(ShortHorizon, c[1], c[2], PairTargets, c[3], c[4]),
                           RawData, c[4]),
            ProjectionCall(VaryScenario(ProjectionInput(ShortHorizon, c[1], c[2],
                                                        PairTargets, c[3], c[4]),
                                        c[5][1], c[5][2]),
                           RawData, c[4])>>] :
        c \in BlendSettings \X {<<>>, <<"GameA">>} \X PairBudgets \X OtherSettings
                 \X ScenarioVariations}

PairArgs == StorePairs \cup ScenarioPairs

InitPair ==
    /\ ProcessInit
    /\ fn = "idle"
    /\ args \in PairArgs
    /\ ret = <<>>

\* The handler serves the next request of the pair.
ServeProjection ==
    /\ Len(ret) < Len(args.requests)
    /\ fn' = "calculate_projection"
    /\ ret' = Append(ret, calculate_projection(
                              args.requests[Len(ret) + 1].input_data,
                              args.requests[Len(ret) + 1].raw_data,
                              args.requests[Len(ret) + 1].config,
                              args.requests[Len(ret) + 1].fits,
                              args.requests[Len(ret) + 1].rng))
    /\ UNCHANGED <<args, process>>

NextPair == ServeProjection

SpecPair == InitPair /\ [][NextPair]_vars

PairDone == fn = "calculate_projection" /\ Len(ret) = 2

PairOk == PairDone /\ ret[1].status = "success" /\ ret[2].status = "success"

(***************************************************************************)
(* C12: when the request selects no retention reference games, the         *)
(* internal weight is forced to 0 and every scenario's retention,          *)
(* payment-rate and ARPPU series are computed from benchmark values only:  *)
(* changing the stored historical series or the selected payment-rate /    *)
(* ARPPU games does not change any output series.                          *)
(***************************************************************************)
C12_BenchmarkOnlyWithoutGames ==
    (PairDone /\ args.kind = "store")
        => /\ PairOk
           /\ \A i \in 1 .. 2 :
                  /\ ret[i].blending.weight_internal = I(0)
                  /\ ret[i].blending.benchmark_only
           /\ ret[1].results = ret[2].results
           /\ ret[1].summary = ret[2].summary

\* A request with fixed-weight blend settings and selected payment-rate and
\* ARPPU games, served against two stores that give these games different
\* patterns.
C12_Witness ==
    /\ PairOk
    /\ args.kind = "store"
    /\ "weight" \in DOMAIN args.requests[1].input_data.blending
    /\ args.requests[1].raw_data # args.requests[2].raw_data
    /\ calculate_pr_pattern(args.requests[1].input_data.revenue.selected_games_pr,
                            args.requests[1].raw_data)
           # calculate_pr_pattern(args.requests[2].input_data.revenue.selected_games_pr,
                                  args.requests[2].raw_data)
    /\ Len(ret[1].results["normal"].full_data.pr) = MidHorizon

(***************************************************************************)
(* C20: the scenarios do not interfere.  For two requests that differ only *)
(* in the parameters of one scenario (its target day-1 retention or its    *)
(* d1_nru), the results and summaries of the other two scenarios are       *)
(* identical, and no value computed while processing an earlier scenario   *)
(* in the best / normal / worst loop changes a later scenario's series.    *)
(***************************************************************************)
C20_ScenariosIndependent ==
    (PairDone /\ args.kind = "scenario")
        => /\ PairOk
           /\ \A scenario \in ScenarioNames \ {args.scenario} :
                  /\ ret[1].results[scenario] = ret[2].results[scenario]
                  /\ ret[1].summary[scenario] = ret[2].summary[scenario]

\* The target of the first scenario of the loop is changed on a request with
\* a selected game: the retention series of that scenario changes.
C20_Witness ==
    /\ PairOk
    /\ args.kind = "scenario"
    /\ args.scenario = Scenarios[1]
    /\ args.requests[1].input_data.retention.selected_games = <<"GameA">>
    /\ args.requests[1].input_data.retention.target_d1_retention[args.scenario]
           # args.requests[2].input_data.retention.target_d1_retention[args.scenario]
    /\ ret[1].results[args.scenario].full_data.retention
           # ret[2].results[args.scenario].full_data.retention
    /\ ret[1].summary[args.scenario] # ret[2].summary[args.scenario]

----------------------------------------------------------------------------
(***************************************************************************)
(* The process serving projection requests one after the other.  A call    *)
(* reads the module-level tables, loads the data file, reseeds the         *)
(* generator of the random module and draws from it; between two calls     *)
(* other code of the process may draw from the generator or reseed it, and *)
(* the upload handler may replace the data file.  The stream of draws that *)
(* follows random.seed(42) comes with the behaviour; the stream of another *)
(* seed is another one.  curve_fit is a function of the data it is given:  *)
(* its outcome comes with the request.                                     *)
(***************************************************************************)

\* random.seed(a) left out: the generator stays in the state it is in.
random_seed_NoReseed(state, a) == state

\* random.seed(a), main.py 111.
random_seed(state, a) == [seed |-> a, drawn |-> 0]

\* The stream of draws that follows random.seed(seed).
SeedStream(stream, seed) ==
    IF seed = 42 THEN stream
    ELSE [i \in 1 .. Len(stream) |-> (stream[i] * 7 + 311 + seed) % 1000]

\* The draws a generator in this state returns next, read cyclically.
GeneratorStream(stream, state) ==
    [i \in 1 .. Len(stream) |->
        SeedStream(stream, state.seed)[((i - 1 + state.drawn) % Len(stream)) + 1]]

\* The generator after n more draws.
Advance(state, n, length) == [state EXCEPT !.drawn = (@ + n) % length]

\* The draws one call of calculate_seasonality consumes (main.py 1106).
SeasonalityDraws(input_data, rng) ==
    SeasonalityLoop(IF input_data.regions = <<>> THEN <<"global">> ELSE input_data.regions,
                    StartDate(input_data.launch_date), rng,
                    0, input_data.projection_days, 0).draws

\* The rows of BENCHMARK_DATA that are the object get_benchmark_data
\* returns, were the only matching row returned as it is.
BenchmarkAliases_SingleRow(table, genre, platforms) ==
    LET Known(platform) == platform \in DOMAIN table /\ genre \in DOMAIN table[platform]
        known == SelectSeq(IF platforms = <<>> THEN <<"PC">> ELSE platforms, Known)
    IN  IF Len(known) = 1 THEN {<<known[1], genre>>} ELSE {}

\* The rows of BENCHMARK_DATA that are the object get_benchmark_data
\* returns: none, both return statements build a new dict (main.py 287,
\* 290-297).
BenchmarkAliases(table, genre, platforms) == {}

\* Lines 1116-1117 as they act on the table: benchmark["pr"] and
\* benchmark["arppu"] are assigned through the returned object.
WriteBenchmark(table, rows, bm_modifier) ==
    [platform \in DOMAIN table |->
        [genre \in DOMAIN table[platform] |->
            IF <<platform, genre>> \in rows
            THEN [table[platform][genre] EXCEPT !.pr = RMul(@, bm_modifier.pr_mod),
                                                !.arppu = RMul(@, bm_modifier.arppu_mod)]
            ELSE table[platform][genre]]]

\* What one call leaves behind: the response, the tables and the generator.
ServeEffects(request, raw_data, rng, setup) ==
    [response |-> ProjectionLoop(request.input_data, Config, setup),
     raw_data |-> raw_data,
     seasonality_factors |-> setup.seasonality_factors,
     tables |->
         [tables EXCEPT !.BENCHMARK_DATA =
             WriteBenchmark(@, BenchmarkAliases(@, setup.genre, setup.platforms),
                            setup.bm_modifier)],
     generator |->
         Advance(random_seed(generator, 42), SeasonalityDraws(request.input_data, rng),
                 Len(rng))]

\* The requests of a behaviour: a request, another one, the first one again.
ServerRequest(days, blending, selected_games, budget, other) ==
    [input_data |-> ProjectionInput(days, blending, selected_games, PairTargets, budget, other),
     fits |-> other.fits]

ServerFirst ==
    {[request |-> ServerRequest(ShortHorizon, <<>>, c[1], c[2], c[3]), stream |-> c[3].rng] :
        c \in {<<>>, <<"GameA">>} \X PairBudgets \X OtherSettings}

\* The other request: the default genre and platform under the Hardcore
\* business model.
ServerOther ==
    {ServerRequest(ShortHorizon, [time_decay |-> FALSE, weight |-> R(1, 2)], <<"GameB">>,
                   [ua_budget |-> <<1000>>, brand_budget |-> <<0>>], other) :
        other \in {o \in OtherSettings : o.bm_type = <<"Hardcore">>}}

ServerArgs ==
    {[requests |-> <<c[1].request, c[2], c[1].request>>, stream |-> c[1].stream] :
        c \in ServerFirst \X ServerOther}

InitServer ==
    /\ fn = "idle"
    /\ args \in ServerArgs
    /\ ret = <<>>
    /\ ProcessInit

\* A call is added to the record of the calls served: the data it loaded,
\* the generator it found, the factors it computed and its response.
ServeStep(effects) ==
    /\ fn' = "calculate_projection"
    /\ ret' = Append(ret, [raw_data |-> effects.raw_data,
                           found |-> generator,
                           seasonality_factors |-> effects.seasonality_factors,
                           response |-> effects.response])
    /\ tables' = effects.tables
    /\ generator' = effects.generator
    /\ UNCHANGED <<args, store>>

\* The handler serves the next request (main.py 1081-1382).
ServeRequest ==
    /\ Len(ret) < Len(args.requests)
    /\ ServeStep(ServeEffects(
           args.requests[Len(ret) + 1], store,
           GeneratorStream(args.stream, random_seed(generator, 42)),
           ProjectionSetup(args.requests[Len(ret) + 1].input_data, store,
                           args.requests[Len(ret) + 1].fits,
                           GeneratorStream(args.stream, random_seed(generator, 42)))))

\* Between two calls, other code of the process draws from the generator or
\* reseeds it.
UseGenerator ==
    /\ 0 < Len(ret) /\ Len(ret) < Len(args.requests)
    /\ \E use \in {"random", "seed"} :
           generator' = IF use = "random" THEN Advance(generator, 1, Len(args.stream))
                        ELSE random_seed(generator, 7)
    /\ generator' # generator
    /\ UNCHANGED <<fn, args, ret, tables, store>>

\* Between two calls, the upload handler replaces the data file
\* (main.py 1544-1568).
UploadData ==
    /\ 0 < Len(ret) /\ Len(ret) < Len(args.requests)
    /\ store' = IF store = RawData THEN AltRawData ELSE RawData
    /\ UNCHANGED <<fn, args, ret, generator, tables>>

NextServer == ServeRequest \/ UseGenerator \/ UploadData

SpecServer == InitServer /\ [][NextServer]_vars

ServerDone == Len(ret) = Len(args.requests)

(***************************************************************************)
(* C21: the projection is deterministic.  Two calls with the same request  *)
(* that load the same historical data return identical responses, whatever *)
(* requests were served and however the generator was used between them;   *)
(* two calls with the same regions, launch date and days compute the same  *)
(* seasonality factors.                                                    *)
(***************************************************************************)
C21_SameSeasonalityArgs(first, second) ==
    /\ first.regions = second.regions
    /\ first.launch_date = second.launch_date
    /\ first.projection_days = second.projection_days

C21_Deterministic ==
    \A i \in 1 .. Len(ret) : \A j \in 1 .. Len(ret) :
        /\ (args.requests[i] = args.requests[j] /\ ret[i].raw_data = ret[j].raw_data)
               => ret[i].response = ret[j].response
        /\ C21_SameSeasonalityArgs(args.requests[i].input_data, args.requests[j].input_data)
               => ret[i].seasonality_factors = ret[j].seasonality_factors

\* The first and the third call serve the same request on the same data and
\* find the generator in different states, another request was served
\* between them with another result, and the factors depend on the draws.
C21_Witness ==
    /\ ServerDone
    /\ ret[1].raw_data = ret[3].raw_data
    /\ ret[1].found.seed # ret[3].found.seed
    /\ ret[3].found # [seed |-> 42, drawn |-> 0]
    /\ ret[1].response.status = "success"
    /\ ret[2].response # ret[1].response
    /\ ret[3].response = ret[1].response
    /\ Len(args.stream) > 1
    /\ ret[1].seasonality_factors
           # calculate_seasonality(<<"Korea", "japan", "mars", "global">>,
                                   args.requests[1].input_data.launch_date, ShortHorizon,
                                   <<0>>)

(***************************************************************************)
(* C22: a call of calculate_projection leaves the tables BENCHMARK_DATA,   *)
(* BM_TYPE_MODIFIERS, QUALITY_SCORES and SEASONALITY_BY_REGION and the     *)
(* stored historical data as they were, and the tables are those of the    *)
(* module; the benchmark payment rate and ARPPU of a response are the      *)
(* table's values times the business-model modifier, applied once, also    *)
(* when an earlier request had the same genre and platform.                *)
(***************************************************************************)
C22_Benchmark(input_data) ==
    LET row == BenchmarkMean(BenchmarkRows(BENCHMARK_DATA,
                                           Get(input_data.blending, "genre", "MMORPG"),
                                           Get(input_data.blending, "platforms", <<"PC">>)))
        bm_type == IF input_data.bm_type \in {<<>>, <<"">>} THEN "Midcore"
                   ELSE input_data.bm_type[1]
        modifier == Get(BM_TYPE_MODIFIERS, bm_type, [pr_mod |-> I(1), arppu_mod |-> I(1)])
    IN  [row EXCEPT !.pr = RMul(@, modifier.pr_mod), !.arppu = RMul(@, modifier.arppu_mod)]

C22_TablesUnchanged ==
    [][Len(ret') = Len(ret) + 1
           => /\ tables = Tables
              /\ tables' = tables
              /\ store' = store
              /\ ret'[Len(ret')].response.status = "success"
                     => ret'[Len(ret')].response.blending.benchmark_data
                            = C22_Benchmark(args.requests[Len(ret')].input_data)]_vars

\* Three requests with the MMORPG row of PC under the Hardcore modifier
\* have been served: each response has half the payment rate of the row.
C22_Witness ==
    /\ ServerDone
    /\ tables = Tables
    /\ \A i \in 1 .. 3 :
           /\ ret[i].response.status = "success"
           /\ ret[i].response.blending.genre = "MMORPG"
           /\ ret[i].response.blending.platforms = <<"PC">>
           /\ ret[i].response.v7_settings.bm_type = "Hardcore"
           /\ ret[i].response.blending.benchmark_data.pr = R(3, 100)
           /\ ret[i].response.blending.benchmark_data.arppu = I(156000)

=============================================================================
